---- MODULE Spec2Model ----
(***************************************************************************)
(* Model of the CIFTI-2 header data model of nibabel/cifti2/cifti2.py:     *)
(* Cifti2MatrixIndicesMap, Cifti2LabelTable, Cifti2MetaData, Cifti2Header. *)
(* Each container is a state machine whose actions are its methods; every  *)
(* action records the call (op), the exception it raised (exc, "none" when *)
(* it returned), the value it returned (ret) and the container before the  *)
(* call (prev); the caller then drops that record (Return) before the next *)
(* call.                                                                   *)
(***************************************************************************)
EXTENDS Integers, Sequences, FiniteSets, TLC

(***************************************************************************)
(* Bounds.                                                                 *)
(***************************************************************************)
\* longest _maps list of a Cifti2MatrixIndicesMap
MaxLen == 3
\* most entries of a Cifti2LabelTable
MaxLabels == 2
\* most MatrixIndicesMaps of a Cifti2Matrix handed to a Cifti2Header
MaxMims == 2

VARIABLES
    maps,       \* Cifti2MatrixIndicesMap._maps
    mimPrev,    \* _maps before the last call
    mimOp,      \* the last call on the MatrixIndicesMap
    mimExc,     \* exception raised by the last call, "none" if it returned
    mimRet,     \* what the last property read returned (a list)
    labels,     \* Cifti2LabelTable._labels, the (key, value) pairs in order
    ltPrev,     \* _labels before the last call
    ltOp,       \* the last call on the LabelTable
    ltExc,      \* exception raised by the last call, "none" if it returned
    data,       \* Cifti2MetaData.data, the (key, value) pairs in order
    mdPrev,     \* data before the last call
    mdOp,       \* the last call on the MetaData
    mdExc,      \* exception raised by the last call, "none" if it returned
    mdRet,      \* the element the last _to_xml_element returned, else None
    header,     \* the Cifti2Header: its matrix and its version
    hdrArg,     \* the matrix argument its constructor was given
    hdrOp,      \* the last call on the header
    hdrExc,     \* exception raised by the last call, "none" if it returned
    hdrRet,     \* the element the last _to_xml_element returned, else None
    obj,        \* the object of a run about one of the other classes
    objPrev,    \* that object before the last call
    objOp,      \* the last call on it
    objExc,     \* exception raised by the last call, "none" if it returned
    objRet      \* what the last call returned, else None

mimVars == <<maps, mimPrev, mimOp, mimExc, mimRet>>
ltVars == <<labels, ltPrev, ltOp, ltExc>>
mdVars == <<data, mdPrev, mdOp, mdExc, mdRet>>
hdrVars == <<header, hdrArg, hdrOp, hdrExc, hdrRet>>
objVars == <<obj, objPrev, objOp, objExc, objRet>>
vars == <<maps, mimPrev, mimOp, mimExc, mimRet, labels, ltPrev, ltOp, ltExc,
          data, mdPrev, mdOp, mdExc, mdRet, header, hdrArg, hdrOp, hdrExc, hdrRet,
          obj, objPrev, objOp, objExc, objRet>>

(***************************************************************************)
(* Python values.  Objects are records of their class and an identity.     *)
(***************************************************************************)
None == [type |-> "NoneType", id |-> 0]

ElementTypes == {"Cifti2Volume", "Cifti2NamedMap", "Cifti2Surface",
                 "Cifti2Parcel", "Cifti2BrainModel"}

\* two objects of each class, so that an object and another object of its
\* class are told apart
ObjectIds == {1, 2}

Elements == [type : ElementTypes, id : ObjectIds]

\* what a caller hands to the MatrixIndicesMap
MimValues == Elements

\* an int, a float counted in halves (h = 3 is 1.5), a str
PyInt(n) == [type |-> "int", n |-> n]
PyFloat(h) == [type |-> "float", h |-> h]
PyStr(s) == [type |-> "str", s |-> s]

\* the result of an expression: the exception raised ("none" if none) and
\* the value
Result(exc, val) == [exc |-> exc, val |-> val]

\* isinstance(value, klass)
IsInstance(value, klass) == value.type = klass

(***************************************************************************)
(* Python list primitives on _maps.                                        *)
(***************************************************************************)
\* a negative index counts from the end
NormIndex(index, n) == IF index < 0 THEN index + n ELSE index

\* list[index] is defined (otherwise IndexError)
IndexOk(index, n) == NormIndex(index, n) >= 0 /\ NormIndex(index, n) < n

\* list[index], 0-based
ListGet(lst, index) == lst[NormIndex(index, Len(lst)) + 1]

\* list[index] = value
ListSet(lst, index, value) ==
    [lst EXCEPT ![NormIndex(index, Len(lst)) + 1] = value]

\* del list[index]
ListDel(lst, index) ==
    LET k == NormIndex(index, Len(lst)) + 1
    IN  SubSeq(lst, 1, k - 1) \o SubSeq(lst, k + 1, Len(lst))

\* list.insert(index, value): the index is clamped to 0..len
ListInsert(lst, index, value) ==
    LET n == Len(lst)
        j == NormIndex(index, n)
        k == IF j < 0 THEN 0 ELSE IF j > n THEN n ELSE j
    IN  SubSeq(lst, 1, k) \o <<value>> \o SubSeq(lst, k + 1, n)

(***************************************************************************)
(* Cifti2MatrixIndicesMap.                                                 *)
(***************************************************************************)
\* a generator that yields the matching elements last-first
RECURSIVE FilterFrom_reversed(_, _, _)
FilterFrom_reversed(lst, klass, i) ==
    IF ~IndexOk(i, Len(lst)) \/ i < 0 THEN <<>>
    ELSE IF IsInstance(ListGet(lst, i), klass)
         THEN FilterFrom_reversed(lst, klass, i + 1) \o <<ListGet(lst, i)>>
         ELSE FilterFrom_reversed(lst, klass, i + 1)

\* Sequence.__iter__ over self, filtered by isinstance: the generator body of
\* named_maps, surfaces, parcels and brain_models, from position i (0-based)
RECURSIVE FilterFrom(_, _, _)
FilterFrom(lst, klass, i) ==
    IF ~IndexOk(i, Len(lst)) \/ i < 0 THEN <<>>
    ELSE IF IsInstance(ListGet(lst, i), klass)
         THEN <<ListGet(lst, i)>> \o FilterFrom(lst, klass, i + 1)
         ELSE FilterFrom(lst, klass, i + 1)

named_maps(lst) == FilterFrom(lst, "Cifti2NamedMap", 0)
surfaces(lst) == FilterFrom(lst, "Cifti2Surface", 0)
parcels(lst) == FilterFrom(lst, "Cifti2Parcel", 0)
brain_models(lst) == FilterFrom(lst, "Cifti2BrainModel", 0)

\* the loop "for i, v in enumerate(self): if isinstance(v, Cifti2Volume): break"
\* the 0-based position at which it breaks, or -1 when it runs into the else
RECURSIVE FirstVolumeFrom(_, _)
FirstVolumeFrom(lst, i) ==
    IF i >= Len(lst) THEN -1
    ELSE IF IsInstance(ListGet(lst, i), "Cifti2Volume") THEN i
         ELSE FirstVolumeFrom(lst, i + 1)

\* the volume property (getter)
volume(lst) ==
    IF FirstVolumeFrom(lst, 0) = -1 THEN None
    ELSE ListGet(lst, FirstVolumeFrom(lst, 0))

Call(name, index, value) == [name |-> name, index |-> index, value |-> value]

\* the outcome of a call: the exception raised ("none" if it returned) and
\* the _maps list it leaves
Outcome(exc, lst) == [exc |-> exc, maps |-> lst]

\* insert without the Volume check
insert_unchecked(lst, index, value) ==
    Outcome("none", ListInsert(lst, index, value))

\* Cifti2MatrixIndicesMap.insert
insert(lst, index, value) ==
    IF IsInstance(value, "Cifti2Volume") /\ volume(lst) # None
    THEN Outcome("CIFTI2HeaderError", lst)
    ELSE Outcome("none", ListInsert(lst, index, value))

\* MutableSequence.append: self.insert(len(self), value)
append(lst, value) == insert(lst, Len(lst), value)

\* __setitem__ whose Volume check does not exempt the overwritten position
setitem_strict(lst, index, value) ==
    IF IsInstance(value, "Cifti2Volume") /\ volume(lst) # None
    THEN Outcome("CIFTI2HeaderError", lst)
    ELSE IF ~IndexOk(index, Len(lst))
         THEN Outcome("IndexError", lst)
         ELSE Outcome("none", ListSet(lst, index, value))

\* Cifti2MatrixIndicesMap.__setitem__
setitem(lst, index, value) ==
    IF IsInstance(value, "Cifti2Volume") /\ volume(lst) # None
    THEN IF ~IndexOk(index, Len(lst))
         THEN Outcome("IndexError", lst)
         ELSE IF ~IsInstance(ListGet(lst, index), "Cifti2Volume")
              THEN Outcome("CIFTI2HeaderError", lst)
              ELSE Outcome("none", ListSet(lst, index, value))
    ELSE IF ~IndexOk(index, Len(lst))
         THEN Outcome("IndexError", lst)
         ELSE Outcome("none", ListSet(lst, index, value))

\* Cifti2MatrixIndicesMap.__delitem__
delitem(lst, index) ==
    IF ~IndexOk(index, Len(lst))
    THEN Outcome("IndexError", lst)
    ELSE Outcome("none", ListDel(lst, index))

\* a setter that drops the old Volume and appends the new one
volume_setter_moving(lst, value) ==
    IF ~IsInstance(value, "Cifti2Volume")
    THEN Outcome("ValueError", lst)
    ELSE IF FirstVolumeFrom(lst, 0) = -1
         THEN append(lst, value)
         ELSE append(ListDel(lst, FirstVolumeFrom(lst, 0)), value)

\* the volume property (setter)
volume_setter(lst, value) ==
    IF ~IsInstance(value, "Cifti2Volume")
    THEN Outcome("ValueError", lst)
    ELSE IF FirstVolumeFrom(lst, 0) = -1
         THEN append(lst, value)
         ELSE setitem(lst, FirstVolumeFrom(lst, 0), value)

\* a deleter that forgets the position it found and deletes the last element
volume_deleter_last(lst) ==
    IF FirstVolumeFrom(lst, 0) = -1
    THEN Outcome("ValueError", lst)
    ELSE delitem(lst, -1)

\* the volume property (deleter)
volume_deleter(lst) ==
    IF FirstVolumeFrom(lst, 0) = -1
    THEN Outcome("ValueError", lst)
    ELSE delitem(lst, FirstVolumeFrom(lst, 0))

\* Cifti2MatrixIndicesMap.__init__: appends each of maps to an empty list; an
\* exception of an append leaves the constructor
RECURSIVE InitFrom(_, _, _)
InitFrom(lst, args, i) ==
    IF i > Len(args) THEN Outcome("none", lst)
    ELSE IF append(lst, args[i]).exc # "none" THEN append(lst, args[i])
         ELSE InitFrom(append(lst, args[i]).maps, args, i + 1)

MimInit(args) == InitFrom(<<>>, args, 1)

\* the lists a caller passes as the maps argument
RECURSIVE SeqsUpTo(_, _)
SeqsUpTo(S, n) ==
    IF n = 0 THEN {<<>>}
    ELSE SeqsUpTo(S, n - 1) \cup
         {Append(s, x) : s \in {t \in SeqsUpTo(S, n - 1) : Len(t) = n - 1}, x \in S}

\* the indices a caller passes to a list of length n: every position from
\* either end and one past each end
Indices(n) == (0 - (n + 1)) .. n

NoCall == Call("none", 0, None)

\* Cifti2Matrix.__init__: a new object with no MatrixIndicesMap and no
\* MetaData
NewMatrix == [type |-> "Cifti2Matrix", id |-> 0, mims |-> <<>>, metadata |-> None]

\* Cifti2Header.__init__: both branches of the conditional make a new matrix
Header_init(matrix, version) ==
    [matrix |-> IF matrix = None THEN NewMatrix ELSE NewMatrix,
     version |-> version]

\* a Cifti2MatrixIndicesMap as its constructor leaves it; the other objects
\* of the run are constructed without arguments and not used
InitMim ==
    /\ \E args \in SeqsUpTo(MimValues, MaxLen) :
          /\ MimInit(args).exc = "none"
          /\ maps = MimInit(args).maps
    /\ mimPrev = maps
    /\ mimOp = NoCall
    /\ mimExc = "none"
    /\ mimRet = <<>>
    /\ labels = <<>>
    /\ ltPrev = <<>>
    /\ ltOp = NoCall
    /\ ltExc = "none"
    /\ data = <<>>
    /\ mdPrev = <<>>
    /\ mdOp = NoCall
    /\ mdExc = "none"
    /\ mdRet = None
    /\ header = Header_init(None, PyStr("2.0"))
    /\ hdrArg = None
    /\ hdrOp = NoCall
    /\ hdrExc = "none"
    /\ hdrRet = None
    /\ obj = None
    /\ objPrev = None
    /\ objOp = NoCall
    /\ objExc = "none"
    /\ objRet = None

\* a mutating call and its outcome
MimStep(call, out) ==
    /\ mimOp = NoCall
    /\ mimPrev' = maps
    /\ mimOp' = call
    /\ mimExc' = out.exc
    /\ maps' = out.maps
    /\ mimRet' = <<>>
    /\ UNCHANGED <<ltVars, mdVars, hdrVars, objVars>>

\* a property read and the list it yields
MimRead(name, result) ==
    /\ mimOp = NoCall
    /\ mimPrev' = maps
    /\ mimOp' = Call(name, 0, None)
    /\ mimExc' = "none"
    /\ maps' = maps
    /\ mimRet' = result
    /\ UNCHANGED <<ltVars, mdVars, hdrVars, objVars>>

Insert ==
    \E index \in Indices(Len(maps)), value \in MimValues :
        /\ Len(maps) < MaxLen
        /\ MimStep(Call("insert", index, value), insert(maps, index, value))

AppendMap ==
    \E value \in MimValues :
        /\ Len(maps) < MaxLen
        /\ MimStep(Call("append", 0, value), append(maps, value))

SetItem ==
    \E index \in Indices(Len(maps)), value \in MimValues :
        MimStep(Call("__setitem__", index, value), setitem(maps, index, value))

DelItem ==
    \E index \in Indices(Len(maps)) :
        MimStep(Call("__delitem__", index, None), delitem(maps, index))

\* MutableSequence.reverse, the loop "for i in range(n//2): self[i],
\* self[n-i-1] = self[n-i-1], self[i]" from i on: both elements are read,
\* then self[i] and self[n-i-1] are assigned in this order
RECURSIVE ReverseFrom(_, _)
ReverseFrom(lst, i) ==
    LET n == Len(lst)
    IN  IF i >= n \div 2 THEN Outcome("none", lst)
        ELSE LET first == setitem(lst, i, ListGet(lst, n - i - 1))
                 second == setitem(first.maps, n - i - 1, ListGet(lst, i))
             IN  IF first.exc # "none" THEN first
                 ELSE IF second.exc # "none" THEN second
                      ELSE ReverseFrom(second.maps, i + 1)

\* MutableSequence.reverse
reverse(lst) == ReverseFrom(lst, 0)

Reverse ==
    MimStep(Call("reverse", 0, None), reverse(maps))

VolumeSet ==
    \E value \in MimValues \cup {None} :
        /\ Len(maps) < MaxLen \/ volume(maps) # None
                              \/ ~IsInstance(value, "Cifti2Volume")
        /\ MimStep(Call("volume.setter", 0, value), volume_setter(maps, value))

VolumeDel ==
    MimStep(Call("volume.deleter", 0, None), volume_deleter(maps))

ReadNamedMaps == MimRead("named_maps", named_maps(maps))
ReadSurfaces == MimRead("surfaces", surfaces(maps))
ReadParcels == MimRead("parcels", parcels(maps))
ReadBrainModels == MimRead("brain_models", brain_models(maps))
ReadVolume == MimRead("volume", <<volume(maps)>>)

\* the call has returned or raised; the caller goes on to its next call
MimReturn ==
    /\ mimOp # NoCall
    /\ mimOp' = NoCall
    /\ mimPrev' = maps
    /\ mimExc' = "none"
    /\ mimRet' = <<>>
    /\ maps' = maps
    /\ UNCHANGED <<ltVars, mdVars, hdrVars, objVars>>

NextMim ==
    \/ Insert
    \/ AppendMap
    \/ SetItem
    \/ DelItem
    \/ Reverse
    \/ VolumeSet
    \/ VolumeDel
    \/ ReadNamedMaps
    \/ ReadSurfaces
    \/ ReadParcels
    \/ ReadBrainModels
    \/ ReadVolume
    \/ MimReturn

SpecMim == InitMim /\ [][NextMim]_vars

(***************************************************************************)
(* Cifti2MatrixIndicesMap: properties.                                     *)
(***************************************************************************)
\* C1: whatever the constructor was given and whichever of append, insert,
\* m[i] = v, del m[i], the volume setter and the volume deleter were called
\* since, _maps holds at most one Cifti2Volume.
C1_AtMostOneVolume ==
    Cardinality({i \in 1..Len(maps) : IsInstance(maps[i], "Cifti2Volume")}) <= 1

\* m[i] = v has just replaced the Volume of a three-element map by another
\* Volume object
C1_Witness ==
    /\ mimOp.name = "__setitem__"
    /\ mimExc = "none"
    /\ IsInstance(mimOp.value, "Cifti2Volume")
    /\ volume(mimPrev) # None
    /\ volume(mimPrev) # mimOp.value
    /\ volume(maps) = mimOp.value
    /\ Len(maps) = 3

\* C2: insert(i, v) of a Volume raises CIFTI2HeaderError exactly when a Volume
\* is present; m[i] = v of a Volume at a position i of the list raises
\* CIFTI2HeaderError exactly when a Volume is present at another position; a
\* call of either that raises leaves _maps as it was.
C2_VolumeRejected ==
    LET hasVolume == \E k \in 1..Len(mimPrev) :
                         IsInstance(mimPrev[k], "Cifti2Volume")
        target == NormIndex(mimOp.index, Len(mimPrev)) + 1
        volumeElsewhere == \E k \in 1..Len(mimPrev) :
                               /\ k # target
                               /\ IsInstance(mimPrev[k], "Cifti2Volume")
    IN  /\ (mimOp.name = "insert" /\ IsInstance(mimOp.value, "Cifti2Volume"))
            => (mimExc = "CIFTI2HeaderError" <=> hasVolume)
        /\ (/\ mimOp.name = "__setitem__"
            /\ IsInstance(mimOp.value, "Cifti2Volume")
            /\ IndexOk(mimOp.index, Len(mimPrev)))
            => (mimExc = "CIFTI2HeaderError" <=> volumeElsewhere)
        /\ (mimOp.name \in {"insert", "__setitem__"} /\ mimExc # "none")
            => maps = mimPrev

\* m[i] = v with v a Volume has just overwritten the position that held the
\* only Volume, with other elements around it
C2_Witness ==
    /\ mimOp.name = "__setitem__"
    /\ mimExc = "none"
    /\ IsInstance(mimOp.value, "Cifti2Volume")
    /\ IndexOk(mimOp.index, Len(mimPrev))
    /\ IsInstance(ListGet(mimPrev, mimOp.index), "Cifti2Volume")
    /\ ListGet(maps, mimOp.index) = mimOp.value
    /\ Len(mimPrev) >= 2

\* C3: the volume setter, given a Volume, puts it at the position of the
\* existing Volume and changes no other position and not the length, or, when
\* there is no Volume, appends it after the unchanged elements; given anything
\* else it raises ValueError and changes nothing.
C3_VolumeSetter ==
    mimOp.name = "volume.setter" =>
        LET P == {k \in 1..Len(mimPrev) : IsInstance(mimPrev[k], "Cifti2Volume")}
        IN  IF ~IsInstance(mimOp.value, "Cifti2Volume")
            THEN mimExc = "ValueError" /\ maps = mimPrev
            ELSE IF P # {}
                 THEN /\ mimExc = "none"
                      /\ Len(maps) = Len(mimPrev)
                      /\ \A k \in 1..Len(mimPrev) :
                            maps[k] = IF k \in P THEN mimOp.value ELSE mimPrev[k]
                 ELSE /\ mimExc = "none"
                      /\ maps = Append(mimPrev, mimOp.value)

\* the setter has just replaced a Volume that is not the last element by another
\* Volume object
C3_Witness ==
    /\ mimOp.name = "volume.setter"
    /\ mimExc = "none"
    /\ Len(mimPrev) = 3
    /\ IsInstance(mimPrev[2], "Cifti2Volume")
    /\ mimOp.value # mimPrev[2]
    /\ maps[2] = mimOp.value

\* C4: the volume deleter removes the first Volume and keeps the other
\* elements in their order, after which the volume property is None; with no
\* Volume it raises ValueError and changes nothing.
C4_VolumeDeleter ==
    mimOp.name = "volume.deleter" =>
        LET P == {k \in 1..Len(mimPrev) : IsInstance(mimPrev[k], "Cifti2Volume")}
            first == CHOOSE k \in P : \A q \in P : k <= q
        IN  IF P = {}
            THEN mimExc = "ValueError" /\ maps = mimPrev
            ELSE /\ mimExc = "none"
                 /\ Len(maps) = Len(mimPrev) - 1
                 /\ \A k \in 1..Len(maps) :
                       maps[k] = IF k < first THEN mimPrev[k] ELSE mimPrev[k + 1]
                 /\ volume(maps) = None

\* the deleter has just removed a Volume from between two other elements
C4_Witness ==
    /\ mimOp.name = "volume.deleter"
    /\ mimExc = "none"
    /\ Len(mimPrev) = 3
    /\ IsInstance(mimPrev[2], "Cifti2Volume")
    /\ maps = <<mimPrev[1], mimPrev[3]>>

\* C5: reading named_maps, surfaces, parcels or brain_models yields the
\* elements of that class, each once, in the order they have in _maps; reading
\* volume yields the first Volume, or None when there is none; no read changes
\* _maps.
C5_Projections ==
    LET klassOf == [named_maps |-> "Cifti2NamedMap", surfaces |-> "Cifti2Surface",
                    parcels |-> "Cifti2Parcel", brain_models |-> "Cifti2BrainModel",
                    volume |-> "Cifti2Volume"]
        reads == {"named_maps", "surfaces", "parcels", "brain_models", "volume"}
    IN  mimOp.name \in reads =>
            LET P == {k \in 1..Len(mimPrev) :
                          IsInstance(mimPrev[k], klassOf[mimOp.name])}
                rank(p) == Cardinality({q \in P : q < p}) + 1
            IN  /\ maps = mimPrev
                /\ mimExc = "none"
                /\ IF mimOp.name = "volume"
                   THEN IF P = {}
                        THEN mimRet = <<None>>
                        ELSE \E p \in P : /\ \A q \in P : p <= q
                                          /\ mimRet = <<mimPrev[p]>>
                   ELSE /\ Len(mimRet) = Cardinality(P)
                        /\ \A p \in P : mimRet[rank(p)] = mimPrev[p]

\* named_maps has just yielded two different NamedMap objects that stand on
\* either side of another element
C5_Witness ==
    /\ mimOp.name = "named_maps"
    /\ Len(maps) = 3
    /\ Len(mimRet) = 2
    /\ mimRet[1] # mimRet[2]
    /\ mimRet = <<maps[1], maps[3]>>

(***************************************************************************)
(* Python conversions used by Cifti2Label.                                 *)
(***************************************************************************)
\* the strings int() reads as a number
IntOfStr == [s \in {"1", "2"} |-> IF s = "1" THEN 1 ELSE 2]

\* int(x): an int is itself, a float is truncated towards zero, a str is
\* parsed (ValueError if it is no number), None is a TypeError
int(x) ==
    CASE x.type = "int" -> Result("none", x)
      [] x.type = "float" ->
            Result("none", PyInt(IF x.h >= 0 THEN x.h \div 2
                               ELSE 0 - ((0 - x.h) \div 2)))
      [] x.type = "str" ->
            IF x.s \in DOMAIN IntOfStr
            THEN Result("none", PyInt(IntOfStr[x.s]))
            ELSE Result("ValueError", None)
      [] OTHER -> Result("TypeError", None)

\* float(x), in halves
float(x) ==
    CASE x.type = "int" -> Result("none", PyFloat(2 * x.n))
      [] x.type = "float" -> Result("none", x)
      [] x.type = "str" ->
            IF x.s \in DOMAIN IntOfStr
            THEN Result("none", PyFloat(2 * IntOfStr[x.s]))
            ELSE Result("ValueError", None)
      [] OTHER -> Result("TypeError", None)

\* _float_01
float_01(val) ==
    IF float(val).exc # "none" THEN float(val)
    ELSE IF float(val).val.h < 0 \/ float(val).val.h > 2
         THEN Result("ValueError", None)
         ELSE float(val)

(***************************************************************************)
(* Cifti2Label.                                                            *)
(***************************************************************************)
\* Cifti2Label.__init__: the six conversions in order; the first exception
\* leaves the constructor.  label is a str here, which str() returns as it is.
Cifti2Label(key, label, red, green, blue, alpha) ==
    IF int(key).exc # "none" THEN Result(int(key).exc, None)
    ELSE IF float_01(red).exc # "none" THEN Result(float_01(red).exc, None)
    ELSE IF float_01(green).exc # "none" THEN Result(float_01(green).exc, None)
    ELSE IF float_01(blue).exc # "none" THEN Result(float_01(blue).exc, None)
    ELSE IF float_01(alpha).exc # "none" THEN Result(float_01(alpha).exc, None)
    ELSE Result("none", [type |-> "Cifti2Label",
                         key |-> int(key).val,
                         label |-> label,
                         red |-> float_01(red).val,
                         green |-> float_01(green).val,
                         blue |-> float_01(blue).val,
                         alpha |-> float_01(alpha).val])

(***************************************************************************)
(* collections.OrderedDict, as the sequence of its (key, value) pairs.     *)
(***************************************************************************)
DictKeys(d) == {d[i].k : i \in 1..Len(d)}

\* an assignment that moves a key of d to the end
DictSet_moving(d, key, value) ==
    Append(SelectSeq(d, LAMBDA e : e.k # key), [k |-> key, v |-> value])

\* d[key] = value: a key of d keeps its place, a new key goes last
DictSet(d, key, value) ==
    IF key \in DictKeys(d)
    THEN [i \in 1..Len(d) |-> IF d[i].k = key THEN [k |-> key, v |-> value]
                                               ELSE d[i]]
    ELSE Append(d, [k |-> key, v |-> value])

\* del d[key], for a key of d
DictDel(d, key) == SelectSeq(d, LAMBDA e : e.k # key)

(***************************************************************************)
(* Cifti2LabelTable.                                                       *)
(***************************************************************************)
\* the outcome of a call on the table
LtOutcome(exc, d) == [exc |-> exc, labels |-> d]

\* a tuple
Tuple(items) == [type |-> "tuple", items |-> items]

\* __setitem__ that stores a Label without comparing the keys
LabelTable_setitem_unchecked(d, key, value) ==
    IF IsInstance(value, "Cifti2Label")
    THEN LtOutcome("none", DictSet(d, key, value))
    ELSE IF Len(value.items) # 5
    THEN LtOutcome("ValueError", d)
    ELSE LET new == Cifti2Label(key, value.items[1], value.items[2],
                                value.items[3], value.items[4], value.items[5])
         IN  IF new.exc # "none" THEN LtOutcome(new.exc, d)
             ELSE LtOutcome("none", DictSet(d, key, new.val))

\* Cifti2LabelTable.__setitem__: a ValueError of the Label constructor is
\* raised again as ValueError, any other exception passes through
LabelTable_setitem(d, key, value) ==
    IF IsInstance(value, "Cifti2Label")
    THEN IF key # value.key
         THEN LtOutcome("ValueError", d)
         ELSE LtOutcome("none", DictSet(d, key, value))
    ELSE IF Len(value.items) # 5
    THEN LtOutcome("ValueError", d)
    ELSE LET new == Cifti2Label(key, value.items[1], value.items[2],
                                value.items[3], value.items[4], value.items[5])
         IN  IF new.exc # "none" THEN LtOutcome(new.exc, d)
             ELSE LtOutcome("none", DictSet(d, key, new.val))

\* Cifti2LabelTable.append
LabelTable_append(d, label) == LabelTable_setitem(d, label.key, label)

\* Cifti2LabelTable.__delitem__
LabelTable_delitem(d, key) ==
    IF key \notin DictKeys(d)
    THEN LtOutcome("KeyError", d)
    ELSE LtOutcome("none", DictDel(d, key))

\* the keys a caller passes: ints, a float that is no whole number, a str
\* that reads as a number, a str that does not, None
LabelKeys == {PyInt(1), PyInt(2), PyFloat(3), PyStr("2"), PyStr("x"), None}

\* the colors a caller passes: 0, 1, -0.5, 2, a str that is no number, None
ColorArgs == {PyInt(0), PyInt(1), PyFloat(-1), PyInt(2), PyStr("x"), None}

\* the sequences a caller assigns: (label, r, g, b, a) with at most one color
\* other than 0, and sequences of 4 and of 6 elements
LabelTuples ==
    {Tuple([i \in 1..5 |-> IF i = 1 THEN PyStr("a")
                           ELSE IF i = pos THEN c ELSE PyInt(0)]) :
        pos \in 2..5, c \in ColorArgs}
    \cup {Tuple(<<PyStr("a"), PyInt(0), PyInt(0), PyInt(0)>>),
          Tuple(<<PyStr("a"), PyInt(0), PyInt(0), PyInt(0), PyInt(0), PyInt(0)>>)}

\* the Label objects a caller holds, each made by the constructor
LabelObjects ==
    {Cifti2Label(PyInt(k), PyStr("b"), PyInt(0), PyInt(0), PyInt(0), PyInt(1)).val :
        k \in {1, 2}}

InitLt ==
    /\ labels = <<>>
    /\ ltPrev = <<>>
    /\ ltOp = NoCall
    /\ ltExc = "none"
    /\ maps = <<>>
    /\ mimPrev = <<>>
    /\ mimOp = NoCall
    /\ mimExc = "none"
    /\ mimRet = <<>>
    /\ data = <<>>
    /\ mdPrev = <<>>
    /\ mdOp = NoCall
    /\ mdExc = "none"
    /\ mdRet = None
    /\ header = Header_init(None, PyStr("2.0"))
    /\ hdrArg = None
    /\ hdrOp = NoCall
    /\ hdrExc = "none"
    /\ hdrRet = None
    /\ obj = None
    /\ objPrev = None
    /\ objOp = NoCall
    /\ objExc = "none"
    /\ objRet = None

\* a call on the table and its outcome
LtStep(call, out) ==
    /\ ltOp = NoCall
    /\ Len(out.labels) <= MaxLabels
    /\ ltPrev' = labels
    /\ ltOp' = call
    /\ ltExc' = out.exc
    /\ labels' = out.labels
    /\ UNCHANGED <<mimVars, mdVars, hdrVars, objVars>>

LtSetItem ==
    \E key \in LabelKeys, value \in LabelTuples \cup LabelObjects :
        LtStep([name |-> "__setitem__", key |-> key, value |-> value],
               LabelTable_setitem(labels, key, value))

LtAppend ==
    \E label \in LabelObjects :
        LtStep([name |-> "append", key |-> None, value |-> label],
               LabelTable_append(labels, label))

LtDelItem ==
    \E key \in LabelKeys :
        LtStep([name |-> "__delitem__", key |-> key, value |-> None],
               LabelTable_delitem(labels, key))

\* the call has returned or raised; the caller goes on to its next call
LtReturn ==
    /\ ltOp # NoCall
    /\ ltOp' = NoCall
    /\ ltPrev' = labels
    /\ ltExc' = "none"
    /\ labels' = labels
    /\ UNCHANGED <<mimVars, mdVars, hdrVars, objVars>>

NextLt ==
    \/ LtSetItem
    \/ LtAppend
    \/ LtDelItem
    \/ LtReturn

SpecLabelTable == InitLt /\ [][NextLt]_vars

(***************************************************************************)
(* Cifti2LabelTable: properties.                                           *)
(***************************************************************************)
\* C6: after any calls of table[k] = Label, table[k] = 5-element sequence,
\* append(label) and del table[k], every entry of the table has
\* table[k].key == k.
C6_KeyAgrees ==
    \A i \in 1..Len(labels) : labels[i].v.key = labels[i].k

StrOfInt == [n \in 0..3 |-> CASE n = 0 -> "0" [] n = 1 -> "1"
                                 [] n = 2 -> "2" [] n = 3 -> "3"]

\* str(x), a TLA+ string: a str is its text, an int its decimal digits with
\* its sign, a float (in halves, not negative) its repr
str(x) ==
    CASE x.type = "str" -> x.s
      [] x.type = "int" ->
            IF x.n < 0 THEN "-" \o StrOfInt[0 - x.n] ELSE StrOfInt[x.n]
      [] x.type = "float" ->
            StrOfInt[x.h \div 2] \o (IF x.h % 2 = 0 THEN ".0" ELSE ".5")
      [] x.type = "NoneType" -> "None"

\* xml.Element / xml.SubElement: tag, attributes, text and children
Element(tag, attrib, text, children) ==
    [tag |-> tag, attrib |-> attrib, text |-> text, children |-> children]

\* a dict: its (key, value) pairs in iteration order
Dict(items) == [type |-> "dict", items |-> items]

\* the outcome of a call on the MetaData
MdOutcome(exc, d) == [exc |-> exc, data |-> d]

\* MutableMapping.update(other): self[key] = other[key] for each key of other
RECURSIVE UpdateFrom(_, _, _)
UpdateFrom(d, items, i) ==
    IF i > Len(items) THEN d
    ELSE UpdateFrom(DictSet(d, items[i].k, items[i].v), items, i + 1)

MetaData_update(d, other) == MdOutcome("none", UpdateFrom(d, other.items, 1))

\* Cifti2MetaData.__init__
MetaData_init(metadata) ==
    IF metadata # None THEN MetaData_update(<<>>, metadata)
    ELSE MdOutcome("none", <<>>)

\* Cifti2MetaData.__setitem__
MetaData_setitem(d, key, value) == MdOutcome("none", DictSet(d, key, value))

\* Cifti2MetaData.__delitem__
MetaData_delitem(d, key) ==
    IF key \notin DictKeys(d) THEN MdOutcome("KeyError", d)
    ELSE MdOutcome("none", DictDel(d, key))

\* the loop "for k in pairs: del self.data[k]" from the i-th key of pairs
RECURSIVE DeleteFrom(_, _, _)
DeleteFrom(d, items, i) ==
    IF i > Len(items) THEN MdOutcome("none", d)
    ELSE IF items[i].k \notin DictKeys(d) THEN MdOutcome("KeyError", d)
         ELSE DeleteFrom(DictDel(d, items[i].k), items, i + 1)

\* a loop that passes over the keys the container does not have
RECURSIVE DeleteFrom_discard(_, _, _)
DeleteFrom_discard(d, items, i) ==
    IF i > Len(items) THEN MdOutcome("none", d)
    ELSE IF items[i].k \notin DictKeys(d)
         THEN DeleteFrom_discard(d, items, i + 1)
         ELSE DeleteFrom_discard(DictDel(d, items[i].k), items, i + 1)

difference_update_discard(d, metadata) ==
    IF metadata = None THEN MdOutcome("ValueError", d)
    ELSE DeleteFrom_discard(d, metadata.items, 1)

\* Cifti2MetaData.difference_update
difference_update(d, metadata) ==
    IF metadata = None THEN MdOutcome("ValueError", d)
    ELSE DeleteFrom(d, metadata.items, 1)

\* Cifti2MetaData._to_xml_element
MetaData_to_xml_element(d) ==
    Element("MetaData", <<>>, "",
            [i \in 1..Len(d) |->
                Element("MD", <<>>, "",
                        <<Element("Name", <<>>, str(d[i].k), <<>>),
                          Element("Value", <<>>, str(d[i].v), <<>>)>>)])

\* the names and the values a caller uses
MetaKeys == {PyStr("a"), PyStr("b"), PyInt(1)}
MetaValues == {PyStr("x"), PyInt(2)}

\* the sequences of (key, value) pairs over the keys K, no key twice
RECURSIVE PairSeqs(_)
PairSeqs(K) ==
    {<<>>} \cup
    UNION {{<<[k |-> key, v |-> value]>> \o rest : rest \in PairSeqs(K \ {key})} :
              key \in K, value \in MetaValues}

\* the dicts a caller passes
MetaDicts == {Dict(items) : items \in PairSeqs(MetaKeys)}

InitMd ==
    /\ \E metadata \in MetaDicts \cup {None} :
          data = MetaData_init(metadata).data
    /\ mdPrev = data
    /\ mdOp = NoCall
    /\ mdExc = "none"
    /\ mdRet = None
    /\ maps = <<>>
    /\ mimPrev = <<>>
    /\ mimOp = NoCall
    /\ mimExc = "none"
    /\ mimRet = <<>>
    /\ labels = <<>>
    /\ ltPrev = <<>>
    /\ ltOp = NoCall
    /\ ltExc = "none"
    /\ header = Header_init(None, PyStr("2.0"))
    /\ hdrArg = None
    /\ hdrOp = NoCall
    /\ hdrExc = "none"
    /\ hdrRet = None
    /\ obj = None
    /\ objPrev = None
    /\ objOp = NoCall
    /\ objExc = "none"
    /\ objRet = None

\* a call on the MetaData, its outcome and what it returned
MdStep(call, out, ret) ==
    /\ mdOp = NoCall
    /\ mdPrev' = data
    /\ mdOp' = call
    /\ mdExc' = out.exc
    /\ data' = out.data
    /\ mdRet' = ret
    /\ UNCHANGED <<mimVars, ltVars, hdrVars, objVars>>

MdCall(name, key, value) == [name |-> name, key |-> key, value |-> value]

MdSetItem ==
    \E key \in MetaKeys, value \in MetaValues :
        MdStep(MdCall("__setitem__", key, value),
               MetaData_setitem(data, key, value), None)

MdDelItem ==
    \E key \in MetaKeys :
        MdStep(MdCall("__delitem__", key, None), MetaData_delitem(data, key), None)

MdUpdate ==
    \E other \in MetaDicts :
        MdStep(MdCall("update", None, other), MetaData_update(data, other), None)

MdDifferenceUpdate ==
    \E other \in MetaDicts \cup {None} :
        MdStep(MdCall("difference_update", None, other),
               difference_update(data, other), None)

MdToXml ==
    MdStep(MdCall("_to_xml_element", None, None), MdOutcome("none", data),
           MetaData_to_xml_element(data))

\* the call has returned or raised; the caller goes on to its next call
MdReturn ==
    /\ mdOp # NoCall
    /\ mdOp' = NoCall
    /\ mdPrev' = data
    /\ mdExc' = "none"
    /\ mdRet' = None
    /\ data' = data
    /\ UNCHANGED <<mimVars, ltVars, hdrVars, objVars>>

NextMd ==
    \/ MdSetItem
    \/ MdDelItem
    \/ MdUpdate
    \/ MdDifferenceUpdate
    \/ MdToXml
    \/ MdReturn

SpecMetaData == InitMd /\ [][NextMd]_vars

(***************************************************************************)
(* Cifti2MetaData: properties.                                             *)
(***************************************************************************)
\* C9: difference_update(other) with other None raises ValueError and leaves
\* the container as it was; with every key of other in the container it
\* removes exactly those keys and leaves the other entries, values and order
\* as they were; with a key of other missing from the container it raises
\* KeyError.
C9_DifferenceUpdate ==
    mdOp.name = "difference_update" =>
        IF mdOp.value = None
        THEN mdExc = "ValueError" /\ data = mdPrev
        ELSE LET K == {mdOp.value.items[i].k : i \in 1..Len(mdOp.value.items)}
             IN  IF K \subseteq {mdPrev[i].k : i \in 1..Len(mdPrev)}
                 THEN /\ mdExc = "none"
                      /\ data = SelectSeq(mdPrev, LAMBDA e : e.k \notin K)
                 ELSE mdExc = "KeyError"

\* difference_update has just removed the first and the last of three entries
C9_Witness ==
    /\ mdOp.name = "difference_update"
    /\ mdExc = "none"
    /\ Len(mdPrev) = 3
    /\ Len(mdOp.value.items) = 2
    /\ data = <<mdPrev[2]>>

\* C10: the keys of the container are unique; m[k] = v replaces the value of
\* a key it has where it stands and puts a new key last; del m[k] takes the
\* key out, so that setting it again puts it last; update(other) does the
\* assignments of other in order; _to_xml_element emits one MD of (Name,
\* Value) for each entry, in the order of the entries, with the str() of the
\* key and of the value.
C10_InsertionOrder ==
    LET keysOf(d) == {d[i].k : i \in 1..Len(d)}
        k == mdOp.key
        v == mdOp.value
    IN  /\ \A i, j \in 1..Len(data) : data[i].k = data[j].k => i = j
        /\ mdOp.name = "__setitem__" =>
              /\ mdExc = "none"
              /\ IF k \in keysOf(mdPrev)
                 THEN /\ Len(data) = Len(mdPrev)
                      /\ \A i \in 1..Len(mdPrev) :
                            data[i] = IF mdPrev[i].k = k THEN [k |-> k, v |-> v]
                                      ELSE mdPrev[i]
                 ELSE data = Append(mdPrev, [k |-> k, v |-> v])
        /\ (mdOp.name = "__delitem__" /\ mdExc = "none") =>
              /\ k \notin keysOf(data)
              /\ data = SelectSeq(mdPrev, LAMBDA e : e.k # k)
        /\ mdOp.name = "update" =>
              LET its == v.items
              IN  /\ mdExc = "none"
                  /\ data =
                       [i \in 1..Len(mdPrev) |->
                           IF \E j \in 1..Len(its) : its[j].k = mdPrev[i].k
                           THEN CHOOSE e \in {its[j] : j \in 1..Len(its)} :
                                    e.k = mdPrev[i].k
                           ELSE mdPrev[i]]
                       \o SelectSeq(its, LAMBDA e : e.k \notin keysOf(mdPrev))
        /\ mdOp.name = "_to_xml_element" =>
              /\ data = mdPrev
              /\ mdRet.tag = "MetaData"
              /\ Len(mdRet.children) = Len(data)
              /\ \A i \in 1..Len(data) :
                    /\ mdRet.children[i].tag = "MD"
                    /\ Len(mdRet.children[i].children) = 2
                    /\ mdRet.children[i].children[1].tag = "Name"
                    /\ mdRet.children[i].children[1].text = str(data[i].k)
                    /\ mdRet.children[i].children[2].tag = "Value"
                    /\ mdRet.children[i].children[2].text = str(data[i].v)

\* m[k] = v has just given the first of three entries another value
C10_Witness ==
    /\ mdOp.name = "__setitem__"
    /\ Len(mdPrev) = 3
    /\ mdPrev[1].k = mdOp.key
    /\ mdPrev[1].v # mdOp.value
    /\ data[1] = [k |-> mdOp.key, v |-> mdOp.value]
    /\ data[2] = mdPrev[2]
    /\ data[3] = mdPrev[3]

(***************************************************************************)
(* Serialization of Cifti2Surface, Cifti2MatrixIndicesMap, Cifti2Matrix.   *)
(***************************************************************************)
\* a list
List(items) == [type |-> "list", items |-> items]

\* sep.join(strs), from the i-th string
RECURSIVE JoinFrom(_, _, _)
JoinFrom(sep, strs, i) ==
    IF i > Len(strs) THEN ""
    ELSE IF i = Len(strs) THEN strs[i]
         ELSE strs[i] \o sep \o JoinFrom(sep, strs, i + 1)

\* the results of serializing the objects of a list in order: the elements,
\* or the exception of the first object that raises
FirstFailure(results) ==
    IF \E i \in 1..Len(results) : results[i].exc # "none"
    THEN LET i == CHOOSE i \in 1..Len(results) :
                      /\ results[i].exc # "none"
                      /\ \A j \in 1..(i - 1) : results[j].exc = "none"
         IN  Result(results[i].exc, None)
    ELSE Result("none", [i \in 1..Len(results) |-> results[i].val])

\* the statements after a call that may raise: an exception of the call leaves
\* the method, a value goes on into rest
Then(result, rest(_)) ==
    IF result.exc # "none" THEN result ELSE rest(result.val)

\* Cifti2Surface._to_xml_element
Surface_to_xml_element(surf) ==
    IF surf.brain_structure = None
    THEN Result("CIFTI2HeaderError", None)
    ELSE Result("none",
                Element("Surface",
                        <<<<"BrainStructure", str(surf.brain_structure)>>,
                          <<"SurfaceNumberOfVertices",
                            str(surf.surface_number_of_vertices)>>>>,
                        "", <<>>))

(***************************************************************************)
(* Cifti2Label._to_xml_element.                                            *)
(***************************************************************************)
\* an exception with its message
Raise(exc, message) == [exc |-> exc, val |-> PyStr(message)]

\* x == n for a number n: an int and a float compare by value, a str or None
\* equals no number
NumEq(x, n) ==
    \/ x.type = "int" /\ x.n = n
    \/ x.type = "float" /\ x.h = 2 * n

\* the message of the error about the color c_, where v is what the last
\* conversion that succeeded returned
ColorMessage(c_, v) ==
    "Label invalid " \o c_ \o " needs to be a float between 0 and 1. and it is "
    \o str(v)

\* a loop that reports, instead of the first refused color, the last one
CheckColorsLast(lab, names, i, v) ==
    LET bad == {j \in 1..Len(names) : float_01(lab[names[j]]).exc # "none"}
    IN  IF bad = {} THEN Result("none", None)
        ELSE Raise("CIFTI2HeaderError",
                   ColorMessage(names[CHOOSE j \in bad : \A k \in bad : k <= j], v))

\* the loop over ('red', 'blue', 'green', 'alpha') from the i-th name: the
\* first color that _float_01 refuses with ValueError raises
\* CIFTI2HeaderError, any other exception leaves the method as it is
RECURSIVE CheckColorsFrom(_, _, _, _)
CheckColorsFrom(lab, names, i, v) ==
    IF i > Len(names) THEN Result("none", None)
    ELSE LET c_ == names[i]
             r == float_01(lab[c_])
         IN  IF r.exc = "ValueError"
             THEN Raise("CIFTI2HeaderError", ColorMessage(c_, v))
             ELSE IF r.exc # "none" THEN Result(r.exc, None)
                  ELSE CheckColorsFrom(lab, names, i + 1, r.val)

\* '0' if val == 0 else '1' if val == 1 else str(val)
ColorAttr(val) ==
    IF NumEq(val, 0) THEN "0" ELSE IF NumEq(val, 1) THEN "1" ELSE str(val)

\* name.capitalize()
capitalize ==
    [red |-> "Red", green |-> "Green", blue |-> "Blue", alpha |-> "Alpha"]

\* `self.label is ''`: the empty str is one object, which the literal is too
IsEmptyStrLiteral(x) == x = PyStr("")

\* Cifti2Label._to_xml_element
Label_to_xml_element(lab) ==
    IF IsEmptyStrLiteral(lab.label)
    THEN Raise("CIFTI2HeaderError", "Label needs a name")
    ELSE IF int(lab.key).exc = "ValueError"
    THEN Raise("CIFTI2HeaderError", "The key must be an integer")
    ELSE IF int(lab.key).exc # "none" THEN Result(int(lab.key).exc, None)
    ELSE LET colors == CheckColorsFrom(lab, <<"red", "blue", "green", "alpha">>,
                                       1, int(lab.key).val)
             names == <<"red", "green", "blue", "alpha">>
         IN  IF colors.exc # "none" THEN colors
             ELSE Result("none",
                         Element("Label",
                                 <<<<"Key", str(lab.key)>>>>
                                 \o [i \in 1..Len(names) |->
                                        <<capitalize[names[i]],
                                          ColorAttr(lab[names[i]])>>],
                                 str(lab.label), <<>>))

(***************************************************************************)
(* Cifti2TransformationMatrixVoxelIndicesIJKtoXYZ and Cifti2Volume.        *)
(***************************************************************************)
\* '{:.10f}'.format(x) of a number in halves, not negative
format_10f(x) ==
    LET h == IF x.type = "int" THEN 2 * x.n ELSE x.h
    IN  StrOfInt[h \div 2] \o (IF h % 2 = 0 THEN ".0000000000" ELSE ".5000000000")

\* Cifti2TransformationMatrixVoxelIndicesIJKtoXYZ._to_xml_element
TransformationMatrix_to_xml_element(trans) ==
    IF trans.matrix = None
    THEN Result("CIFTI2HeaderError", None)
    ELSE LET rows == trans.matrix.items
             row_strings ==
                 [i \in 1..Len(rows) |->
                     JoinFrom(" ", [j \in 1..Len(rows[i].items) |->
                                       format_10f(rows[i].items[j])], 1)]
         IN  Result("none",
                    Element("TransformationMatrixVoxelIndicesIJKtoXYZ",
                            <<<<"MeterExponent", str(trans.meter_exponent)>>>>,
                            JoinFrom("\n", row_strings, 1), <<>>))

\* obj._to_xml_element() for the object an attribute holds: None has no such
\* method
TransformAttr_to_xml_element(trans) ==
    IF trans = None THEN Result("AttributeError", None)
    ELSE TransformationMatrix_to_xml_element(trans)

\* Cifti2Volume._to_xml_element
Volume_to_xml_element(vol) ==
    IF vol.volume_dimensions = None
    THEN Result("CIFTI2HeaderError", None)
    ELSE LET dims == vol.volume_dimensions.items
         IN  Then(TransformAttr_to_xml_element(
                      vol.transformation_matrix_voxel_indices_ijk_to_xyz),
                  LAMBDA trans :
                      Result("none",
                             Element("Volume",
                                     <<<<"VolumeDimensions",
                                         JoinFrom(",", [i \in 1..Len(dims) |-> str(dims[i])], 1)>>>>,
                                     "", <<trans>>)))

(***************************************************************************)
(* The elements of a MatrixIndicesMap and their children.                  *)
(***************************************************************************)
\* len(x) of the containers: a MetaData and a LabelTable count their
\* entries, the three index sequences their items
len(x) ==
    CASE x.type = "Cifti2MetaData" -> Len(x.data)
      [] x.type = "Cifti2LabelTable" -> Len(x.labels)
      [] x.type = "Cifti2VoxelIndicesIJK" -> Len(x.indices)
      [] x.type = "Cifti2VertexIndices" -> Len(x.indices)
      [] x.type = "Cifti2Vertices" -> Len(x.vertices)

\* bool(x), the test of `if x:` on None or a container: None is false, and
\* so is a container of length 0
bool(x) == x # None /\ len(x) # 0

\* Cifti2LabelTable._to_xml_element
LabelTable_to_xml_element(table) ==
    IF len(table) = 0
    THEN Result("CIFTI2HeaderError", None)
    ELSE Then(FirstFailure([i \in 1..Len(table.labels) |->
                               Label_to_xml_element(table.labels[i].v)]),
              LAMBDA kids : Result("none", Element("LabelTable", <<>>, "", kids)))

\* ' '.join([str(v) for v in ints])
JoinInts(ints) == JoinFrom(" ", [i \in 1..Len(ints) |-> str(ints[i])], 1)

\* Cifti2VoxelIndicesIJK._to_xml_element
VoxelIndicesIJK_to_xml_element(vox) ==
    IF len(vox) = 0
    THEN Result("CIFTI2HeaderError", None)
    ELSE Result("none",
                Element("VoxelIndicesIJK", <<>>,
                        JoinFrom("\n", [i \in 1..Len(vox.indices) |->
                                           JoinInts(vox.indices[i])], 1),
                        <<>>))

\* Cifti2Vertices._to_xml_element
Vertices_to_xml_element(verts) ==
    IF verts.brain_structure = None
    THEN Result("CIFTI2HeaderError", None)
    ELSE Result("none",
                Element("Vertices",
                        <<<<"BrainStructure", str(verts.brain_structure)>>>>,
                        JoinInts(verts.vertices), <<>>))

\* Cifti2VertexIndices._to_xml_element
VertexIndices_to_xml_element(vert) ==
    IF len(vert) = 0
    THEN Result("CIFTI2HeaderError", None)
    ELSE Result("none",
                Element("VertexIndices", <<>>, JoinInts(vert.indices), <<>>))

\* Cifti2NamedMap._to_xml_element: map_name.text is the name as it is
NamedMap_to_xml_element(nm) ==
    LET meta == IF bool(nm.metadata)
                THEN <<MetaData_to_xml_element(nm.metadata.data)>>
                ELSE <<>>
    IN  Then(IF bool(nm.label_table)
             THEN LabelTable_to_xml_element(nm.label_table)
             ELSE Result("none", None),
             LAMBDA table :
                 Result("none",
                        Element("NamedMap", <<>>, "",
                                meta
                                \o (IF table # None THEN <<table>> ELSE <<>>)
                                \o <<Element("MapName", <<>>,
                                             IF nm.map_name = None THEN "" ELSE nm.map_name.s,
                                             <<>>)>>)))

\* Cifti2Parcel._to_xml_element
Parcel_to_xml_element(p) ==
    IF p.name = None
    THEN Result("CIFTI2HeaderError", None)
    ELSE Then(IF bool(p.voxel_indices_ijk)
              THEN VoxelIndicesIJK_to_xml_element(p.voxel_indices_ijk)
              ELSE Result("none", None),
              LAMBDA vox :
                  Then(FirstFailure([i \in 1..Len(p.vertices) |->
                                        Vertices_to_xml_element(p.vertices[i])]),
                       LAMBDA kids :
                           Result("none",
                                  Element("Parcel", <<<<"Name", str(p.name)>>>>, "",
                                          (IF vox # None THEN <<vox>> ELSE <<>>)
                                          \o kids))))

\* _underscore on the attribute names of a MatrixIndicesMap and of a
\* BrainModel: an underscore before each capital inside the name, then lower
\* case
underscore ==
    [IndicesMapToDataType |-> "indices_map_to_data_type",
     NumberOfSeriesPoints |-> "number_of_series_points",
     SeriesExponent |-> "series_exponent",
     SeriesStart |-> "series_start",
     SeriesStep |-> "series_step",
     SeriesUnit |-> "series_unit",
     IndexOffset |-> "index_offset",
     IndexCount |-> "index_count",
     ModelType |-> "model_type",
     BrainStructure |-> "brain_structure",
     SurfaceNumberOfVertices |-> "surface_number_of_vertices"]

\* Cifti2BrainModel._to_xml_element
BrainModel_to_xml_element(bm) ==
    LET keys == <<"IndexOffset", "IndexCount", "ModelType", "BrainStructure",
                  "SurfaceNumberOfVertices">>
        set == SelectSeq(keys, LAMBDA key : bm[underscore[key]] # None)
        attrib == [i \in 1..Len(set) |-> <<set[i], str(bm[underscore[set[i]]])>>]
    IN  Then(IF bool(bm.voxel_indices_ijk)
             THEN VoxelIndicesIJK_to_xml_element(bm.voxel_indices_ijk)
             ELSE Result("none", None),
             LAMBDA vox :
                 Then(IF bool(bm.vertex_indices)
                      THEN VertexIndices_to_xml_element(bm.vertex_indices)
                      ELSE Result("none", None),
                      LAMBDA vert :
                          Result("none",
                                 Element("BrainModel", attrib, "",
                                         (IF vox # None THEN <<vox>> ELSE <<>>)
                                         \o (IF vert # None THEN <<vert>> ELSE <<>>)))))

\* value._to_xml_element() for an element of a MatrixIndicesMap: the method
\* of its class
Element_to_xml_element(el) ==
    CASE el.type = "Cifti2NamedMap" -> NamedMap_to_xml_element(el)
      [] el.type = "Cifti2Surface" -> Surface_to_xml_element(el)
      [] el.type = "Cifti2Parcel" -> Parcel_to_xml_element(el)
      [] el.type = "Cifti2BrainModel" -> BrainModel_to_xml_element(el)
      [] el.type = "Cifti2Volume" -> Volume_to_xml_element(el)

\* _to_xml_element that writes the six attributes whether they are set or not
MatrixIndicesMap_to_xml_element_all_attributes(mim) ==
    IF mim.applies_to_matrix_dimension = None
    THEN Result("CIFTI2HeaderError", None)
    ELSE LET dims == mim.applies_to_matrix_dimension.items
             dims_as_strings == [i \in 1..Len(dims) |-> str(dims[i])]
             keys == <<"IndicesMapToDataType", "NumberOfSeriesPoints",
                       "SeriesExponent", "SeriesStart", "SeriesStep",
                       "SeriesUnit">>
             set == keys
             attrib == <<<<"AppliesToMatrixDimension",
                           JoinFrom(",", dims_as_strings, 1)>>>>
                       \o [i \in 1..Len(set) |->
                              <<set[i], str(mim[underscore[set[i]]])>>]
         IN  Then(FirstFailure([i \in 1..Len(mim.maps) |->
                                   Element_to_xml_element(mim.maps[i])]),
                  LAMBDA kids :
                      Result("none", Element("MatrixIndicesMap", attrib, "", kids)))

\* Cifti2MatrixIndicesMap._to_xml_element
MatrixIndicesMap_to_xml_element(mim) ==
    IF mim.applies_to_matrix_dimension = None
    THEN Result("CIFTI2HeaderError", None)
    ELSE LET dims == mim.applies_to_matrix_dimension.items
             dims_as_strings == [i \in 1..Len(dims) |-> str(dims[i])]
             keys == <<"IndicesMapToDataType", "NumberOfSeriesPoints",
                       "SeriesExponent", "SeriesStart", "SeriesStep",
                       "SeriesUnit">>
             set == SelectSeq(keys, LAMBDA key : mim[underscore[key]] # None)
             attrib == <<<<"AppliesToMatrixDimension",
                           JoinFrom(",", dims_as_strings, 1)>>>>
                       \o [i \in 1..Len(set) |->
                              <<set[i], str(mim[underscore[set[i]]])>>]
         IN  Then(FirstFailure([i \in 1..Len(mim.maps) |->
                                   Element_to_xml_element(mim.maps[i])]),
                  LAMBDA kids :
                      Result("none", Element("MatrixIndicesMap", attrib, "", kids)))

\* bool(metadata): None is false, and so is a MetaData without entries
Truthy(metadata) == metadata # None /\ Len(metadata.data) # 0

\* Cifti2Matrix._to_xml_element
Matrix_to_xml_element(mat) ==
    IF Len(mat.mims) = 0 /\ mat.metadata = None
    THEN Result("CIFTI2HeaderError", None)
    ELSE LET meta == IF Truthy(mat.metadata)
                     THEN <<MetaData_to_xml_element(mat.metadata.data)>>
                     ELSE <<>>
         IN  Then(FirstFailure([i \in 1..Len(mat.mims) |->
                                   MatrixIndicesMap_to_xml_element(mat.mims[i])]),
                  LAMBDA kids :
                      Result("none", Element("Matrix", <<>>, "", meta \o kids)))

(***************************************************************************)
(* Cifti2Header.                                                           *)
(***************************************************************************)
\* Cifti2Header._to_xml_element
Header_to_xml_element(h) ==
    Then(Matrix_to_xml_element(h.matrix),
         LAMBDA mat_xml :
             Result("none",
                    Element("CIFTI", <<<<"Version", str(h.version)>>>>, "",
                            IF mat_xml # None THEN <<mat_xml>> ELSE <<>>)))

\* the Surfaces, MatrixIndicesMaps, MetaDatas and Matrices a caller builds
SurfaceArgs ==
    {[type |-> "Cifti2Surface", brain_structure |-> b,
      surface_number_of_vertices |-> PyInt(3)] :
        b \in {None, PyStr("CIFTI_STRUCTURE_CORTEX_LEFT")}}

MimArgs ==
    {[type |-> "Cifti2MatrixIndicesMap",
      applies_to_matrix_dimension |-> a,
      indices_map_to_data_type |-> PyStr("CIFTI_INDEX_TYPE_SCALARS"),
      number_of_series_points |-> None,
      series_exponent |-> None,
      series_start |-> None,
      series_step |-> None,
      series_unit |-> None,
      maps |-> <<>>] : a \in {None, List(<<PyInt(0), PyInt(1)>>)}}
    \cup
    {[type |-> "Cifti2MatrixIndicesMap",
      applies_to_matrix_dimension |-> List(<<PyInt(1)>>),
      indices_map_to_data_type |-> PyStr("CIFTI_INDEX_TYPE_SERIES"),
      number_of_series_points |-> PyInt(2),
      series_exponent |-> None,
      series_start |-> None,
      series_step |-> None,
      series_unit |-> PyStr("SECOND"),
      maps |-> <<surf>>] : surf \in SurfaceArgs}

MetaDataArgs ==
    {None,
     [type |-> "Cifti2MetaData", data |-> <<>>],
     [type |-> "Cifti2MetaData",
      data |-> <<[k |-> PyStr("a"), v |-> PyStr("x")]>>]}

MatrixArgs ==
    {[type |-> "Cifti2Matrix", id |-> 1, mims |-> mims, metadata |-> metadata] :
        mims \in SeqsUpTo(MimArgs, MaxMims), metadata \in MetaDataArgs}

Versions == {PyStr("2.0"), PyStr("1.0")}

InitHdr ==
    /\ \E matrix \in MatrixArgs \cup {None}, version \in Versions :
          /\ header = Header_init(matrix, version)
          /\ hdrArg = matrix
    /\ hdrOp = NoCall
    /\ hdrExc = "none"
    /\ hdrRet = None
    /\ maps = <<>>
    /\ mimPrev = <<>>
    /\ mimOp = NoCall
    /\ mimExc = "none"
    /\ mimRet = <<>>
    /\ labels = <<>>
    /\ ltPrev = <<>>
    /\ ltOp = NoCall
    /\ ltExc = "none"
    /\ data = <<>>
    /\ mdPrev = <<>>
    /\ mdOp = NoCall
    /\ mdExc = "none"
    /\ mdRet = None
    /\ obj = None
    /\ objPrev = None
    /\ objOp = NoCall
    /\ objExc = "none"
    /\ objRet = None

HdrToXml ==
    /\ hdrOp = NoCall
    /\ hdrOp' = Call("_to_xml_element", 0, None)
    /\ hdrExc' = Header_to_xml_element(header).exc
    /\ hdrRet' = Header_to_xml_element(header).val
    /\ UNCHANGED <<header, hdrArg, mimVars, ltVars, mdVars, objVars>>

\* the call has returned or raised; the caller goes on to its next call
HdrReturn ==
    /\ hdrOp # NoCall
    /\ hdrOp' = NoCall
    /\ hdrExc' = "none"
    /\ hdrRet' = None
    /\ UNCHANGED <<header, hdrArg, mimVars, ltVars, mdVars, objVars>>

NextHdr ==
    \/ HdrToXml
    \/ HdrReturn

SpecHeader == InitHdr /\ [][NextHdr]_vars

(***************************************************************************)
(* Cifti2Header: properties.                                               *)
(***************************************************************************)
\* C8: the matrix of a header constructed with a Matrix is that Matrix, and
\* _to_xml_element of the header returns a CIFTI element with the Version
\* attribute and the element of that Matrix as its child whenever that Matrix
\* serializes.
C8_HeaderWrapsMatrix ==
    hdrArg # None =>
        /\ header.matrix = hdrArg
        /\ (hdrOp.name = "_to_xml_element"
            /\ Matrix_to_xml_element(hdrArg).exc = "none")
              => /\ hdrExc = "none"
                 /\ hdrRet = Element("CIFTI",
                                     <<<<"Version", str(header.version)>>>>, "",
                                     <<Matrix_to_xml_element(hdrArg).val>>)

(***************************************************************************)
(* Calls on the object of a run: obj is the object (or the objects) the    *)
(* caller holds, the other variables record the last call.                 *)
(***************************************************************************)
\* the outcome of a call: the exception raised ("none" if it returned) and
\* the object it leaves
ObjOutcome(exc, o) == [exc |-> exc, obj |-> o]

\* a call on the object, its outcome and what it returned
ObjStep(call, out, ret) ==
    /\ objOp.name = "none"
    /\ objPrev' = obj
    /\ objOp' = call
    /\ objExc' = out.exc
    /\ obj' = out.obj
    /\ objRet' = ret
    /\ UNCHANGED <<mimVars, ltVars, mdVars, hdrVars>>

\* the call has returned or raised; the caller goes on to its next call
ObjReturn ==
    /\ objOp.name # "none"
    /\ objOp' = NoCall
    /\ objPrev' = obj
    /\ objExc' = "none"
    /\ objRet' = None
    /\ obj' = obj
    /\ UNCHANGED <<mimVars, ltVars, mdVars, hdrVars>>

(***************************************************************************)
(* Cifti2Matrix as a MutableSequence of MatrixIndicesMaps, and the         *)
(* vertices list of a Cifti2Parcel.                                        *)
(***************************************************************************)
\* _value_if_klass
value_if_klass(val, klass) ==
    IF val = None \/ IsInstance(val, klass)
    THEN Result("none", val)
    ELSE Result("ValueError", None)

\* the metadata property (setter) of Cifti2Matrix
Matrix_metadata_setter(m, meta) ==
    IF value_if_klass(meta, "Cifti2MetaData").exc # "none"
    THEN ObjOutcome(value_if_klass(meta, "Cifti2MetaData").exc, m)
    ELSE ObjOutcome("none", [m EXCEPT !.metadata = meta])

\* Cifti2Matrix.__setitem__
Matrix_setitem(m, key, value) ==
    IF ~IsInstance(value, "Cifti2MatrixIndicesMap")
    THEN ObjOutcome("TypeError", m)
    ELSE IF ~IndexOk(key, Len(m.mims))
         THEN ObjOutcome("IndexError", m)
         ELSE ObjOutcome("none", [m EXCEPT !.mims = ListSet(m.mims, key, value)])

\* Cifti2Matrix.__delitem__
Matrix_delitem(m, key) ==
    IF ~IndexOk(key, Len(m.mims))
    THEN ObjOutcome("IndexError", m)
    ELSE ObjOutcome("none", [m EXCEPT !.mims = ListDel(m.mims, key)])

\* insert without the isinstance check
Matrix_insert_unchecked(m, index, value) ==
    ObjOutcome("none", [m EXCEPT !.mims = ListInsert(m.mims, index, value)])

\* Cifti2Matrix.insert
Matrix_insert(m, index, value) ==
    IF ~IsInstance(value, "Cifti2MatrixIndicesMap")
    THEN ObjOutcome("TypeError", m)
    ELSE ObjOutcome("none", [m EXCEPT !.mims = ListInsert(m.mims, index, value)])

\* Cifti2Parcel.__init__: the voxel_indices_ijk setter may raise; vertices
\* defaults to a new empty list
Parcel_init(name, voxel_indices_ijk, vertices) ==
    IF value_if_klass(voxel_indices_ijk, "Cifti2VoxelIndicesIJK").exc # "none"
    THEN Result(value_if_klass(voxel_indices_ijk, "Cifti2VoxelIndicesIJK").exc, None)
    ELSE Result("none",
                [type |-> "Cifti2Parcel",
                 name |-> name,
                 voxel_indices_ijk |-> voxel_indices_ijk,
                 vertices |-> IF vertices # None THEN vertices.items ELSE <<>>])

\* Cifti2Parcel.append_cifti_vertices
append_cifti_vertices(p, vertices) ==
    IF ~IsInstance(vertices, "Cifti2Vertices")
    THEN ObjOutcome("TypeError", p)
    ELSE ObjOutcome("none", [p EXCEPT !.vertices = Append(p.vertices, vertices)])

\* Cifti2Parcel.pop_cifti2_vertices: list.pop(ith)
pop_cifti2_vertices(p, ith) ==
    IF ~IndexOk(ith, Len(p.vertices))
    THEN ObjOutcome("IndexError", p)
    ELSE ObjOutcome("none", [p EXCEPT !.vertices = ListDel(p.vertices, ith)])

\* the most Vertices a Parcel of the run holds
MaxParcelVertices == 2

\* the Cifti2Vertices objects a caller builds: the brain structure and the
\* vertex list as the constructor leaves it
VerticesArgs ==
    {[type |-> "Cifti2Vertices", brain_structure |-> b, vertices |-> v] :
        b \in {None, PyStr("CIFTI_STRUCTURE_CORTEX_LEFT")},
        v \in {<<>>, <<PyInt(1), PyInt(2)>>}}

\* what a caller hands to the Matrix: MatrixIndicesMaps and other objects
MatrixValues ==
    MimArgs \cup {None, PyStr("a"), [type |-> "Cifti2MetaData", data |-> <<>>]}

\* what a caller hands to Parcel.append_cifti_vertices
ParcelValues == VerticesArgs \cup {None, List(<<PyInt(1)>>)}

\* a new Matrix or a new Parcel; the other objects of the run are
\* constructed without arguments and not used
InitMatrix ==
    /\ obj \in {[NewMatrix EXCEPT !.id = 1],
                Parcel_init(PyStr("a"), None, None).val}
    /\ objPrev = obj
    /\ objOp = NoCall
    /\ objExc = "none"
    /\ objRet = None
    /\ maps = <<>>
    /\ mimPrev = <<>>
    /\ mimOp = NoCall
    /\ mimExc = "none"
    /\ mimRet = <<>>
    /\ labels = <<>>
    /\ ltPrev = <<>>
    /\ ltOp = NoCall
    /\ ltExc = "none"
    /\ data = <<>>
    /\ mdPrev = <<>>
    /\ mdOp = NoCall
    /\ mdExc = "none"
    /\ mdRet = None
    /\ header = Header_init(None, PyStr("2.0"))
    /\ hdrArg = None
    /\ hdrOp = NoCall
    /\ hdrExc = "none"
    /\ hdrRet = None

\* a call on the Matrix of the run
MatStep(call, out, ret) ==
    /\ IsInstance(obj, "Cifti2Matrix")
    /\ ObjStep(call, out, ret)

\* a call on the Parcel of the run
ParcelStep(call, out) ==
    /\ IsInstance(obj, "Cifti2Parcel")
    /\ ObjStep(call, out, None)

MatInsert ==
    /\ IsInstance(obj, "Cifti2Matrix")
    /\ \E index \in Indices(Len(obj.mims)), value \in MatrixValues :
          /\ Len(obj.mims) < MaxMims
          /\ MatStep(Call("insert", index, value),
                     Matrix_insert(obj, index, value), None)

MatSetItem ==
    /\ IsInstance(obj, "Cifti2Matrix")
    /\ \E key \in Indices(Len(obj.mims)), value \in MatrixValues :
          MatStep(Call("__setitem__", key, value),
                  Matrix_setitem(obj, key, value), None)

MatDelItem ==
    /\ IsInstance(obj, "Cifti2Matrix")
    /\ \E key \in Indices(Len(obj.mims)) :
          MatStep(Call("__delitem__", key, None), Matrix_delitem(obj, key), None)

MatSetMetaData ==
    \E meta \in MetaDataArgs \cup {PyStr("a")} :
        MatStep(Call("metadata.setter", 0, meta),
                Matrix_metadata_setter(obj, meta), None)

MatToXml ==
    MatStep(Call("_to_xml_element", 0, None),
            ObjOutcome(Matrix_to_xml_element(obj).exc, obj),
            Matrix_to_xml_element(obj).val)

ParcelAppendVertices ==
    /\ IsInstance(obj, "Cifti2Parcel")
    /\ \E vertices \in ParcelValues :
          /\ Len(obj.vertices) < MaxParcelVertices
          /\ ParcelStep(Call("append_cifti_vertices", 0, vertices),
                        append_cifti_vertices(obj, vertices))

ParcelPopVertices ==
    /\ IsInstance(obj, "Cifti2Parcel")
    /\ \E ith \in Indices(Len(obj.vertices)) :
          ParcelStep(Call("pop_cifti2_vertices", ith, None),
                     pop_cifti2_vertices(obj, ith))

NextMatrix ==
    \/ MatInsert
    \/ MatSetItem
    \/ MatDelItem
    \/ MatSetMetaData
    \/ MatToXml
    \/ ParcelAppendVertices
    \/ ParcelPopVertices
    \/ ObjReturn

SpecMatrix == InitMatrix /\ [][NextMatrix]_vars

\* C11: Matrix.insert and Matrix.__setitem__ of a value that is no
\* Cifti2MatrixIndicesMap, and Parcel.append_cifti_vertices of a value that is
\* no Cifti2Vertices, raise TypeError and leave the container as it was; so
\* after any calls every element of the Matrix is a MatrixIndicesMap (and
\* every element appended to the Parcel a Vertices).
C11_TypeChecked ==
    /\ (/\ objOp.name \in {"insert", "__setitem__"}
        /\ ~IsInstance(objOp.value, "Cifti2MatrixIndicesMap"))
          => (objExc = "TypeError" /\ obj = objPrev)
    /\ (/\ objOp.name = "append_cifti_vertices"
        /\ ~IsInstance(objOp.value, "Cifti2Vertices"))
          => (objExc = "TypeError" /\ obj = objPrev)
    /\ IsInstance(obj, "Cifti2Matrix") =>
          \A i \in 1..Len(obj.mims) :
              IsInstance(obj.mims[i], "Cifti2MatrixIndicesMap")
    /\ IsInstance(obj, "Cifti2Parcel") =>
          \A i \in 1..Len(obj.vertices) :
              IsInstance(obj.vertices[i], "Cifti2Vertices")

\* a __setitem__ of None at a valid index of a Matrix of two maps was
\* rejected
C11_Witness ==
    /\ objOp.name = "__setitem__"
    /\ objOp.value = None
    /\ IndexOk(objOp.index, Len(objPrev.mims))
    /\ objExc = "TypeError"
    /\ Len(obj.mims) = 2

\* C12: serializing a Matrix raises CIFTI2HeaderError exactly when it has no
\* MatrixIndicesMap and its MetaData is None; in every other state (of a
\* Matrix whose maps serialize) the element holds the MetaData element
\* whenever the MetaData is not None, also when it has no entries, followed
\* by one element per MatrixIndicesMap in order.
C12_MatrixXml ==
    (/\ objOp.name = "_to_xml_element"
     /\ IsInstance(obj, "Cifti2Matrix")
     /\ \A i \in 1..Len(obj.mims) :
           MatrixIndicesMap_to_xml_element(obj.mims[i]).exc = "none")
    => IF Len(obj.mims) = 0 /\ obj.metadata = None
       THEN objExc = "CIFTI2HeaderError"
       ELSE /\ objExc = "none"
            /\ objRet.tag = "Matrix"
            /\ objRet.children =
                  (IF obj.metadata # None
                   THEN <<MetaData_to_xml_element(obj.metadata.data)>>
                   ELSE <<>>)
                  \o [i \in 1..Len(obj.mims) |->
                         MatrixIndicesMap_to_xml_element(obj.mims[i]).val]

(***************************************************************************)
(* Cifti2Label: construction, attribute assignment and serialization.      *)
(***************************************************************************)
\* what a caller assigns to the fields of a Label after construction; the
\* attributes are plain, so any value is taken
LabelKeyValues == {PyInt(1), PyFloat(3), PyStr("x"), None}
LabelNameValues == {PyStr("a"), PyStr("")}
LabelColorValues ==
    {PyFloat(0), PyFloat(1), PyInt(1), PyFloat(3), PyFloat(0 - 1), PyStr("x"), None}

LabelColors == {"red", "green", "blue", "alpha"}

\* a Label as its constructor leaves it; the other objects of the run are
\* constructed without arguments and not used
InitLabel ==
    /\ \E key \in {PyInt(1), PyStr("2")}, label \in LabelNameValues,
          red \in {PyFloat(0), PyInt(1)}, alpha \in {PyFloat(0), PyFloat(1)} :
          /\ Cifti2Label(key, label, red, PyFloat(0), PyFloat(0), alpha).exc = "none"
          /\ obj = Cifti2Label(key, label, red, PyFloat(0), PyFloat(0), alpha).val
    /\ objPrev = obj
    /\ objOp = NoCall
    /\ objExc = "none"
    /\ objRet = None
    /\ maps = <<>>
    /\ mimPrev = <<>>
    /\ mimOp = NoCall
    /\ mimExc = "none"
    /\ mimRet = <<>>
    /\ labels = <<>>
    /\ ltPrev = <<>>
    /\ ltOp = NoCall
    /\ ltExc = "none"
    /\ data = <<>>
    /\ mdPrev = <<>>
    /\ mdOp = NoCall
    /\ mdExc = "none"
    /\ mdRet = None
    /\ header = Header_init(None, PyStr("2.0"))
    /\ hdrArg = None
    /\ hdrOp = NoCall
    /\ hdrExc = "none"
    /\ hdrRet = None

\* label.key = value
LabelSetKey ==
    \E value \in LabelKeyValues :
        ObjStep(Call("key", 0, value), ObjOutcome("none", [obj EXCEPT !.key = value]),
                None)

\* label.label = value
LabelSetName ==
    \E value \in LabelNameValues :
        ObjStep(Call("label", 0, value),
                ObjOutcome("none", [obj EXCEPT !.label = value]), None)

\* label.red = value, and likewise green, blue, alpha
LabelSetColor ==
    \E c_ \in LabelColors, value \in LabelColorValues :
        ObjStep(Call(c_, 0, value), ObjOutcome("none", [obj EXCEPT ![c_] = value]),
                None)

LabelToXml ==
    ObjStep(Call("_to_xml_element", 0, None),
            ObjOutcome(Label_to_xml_element(obj).exc, obj),
            Label_to_xml_element(obj).val)

NextLabel ==
    \/ LabelSetKey
    \/ LabelSetName
    \/ LabelSetColor
    \/ LabelToXml
    \/ ObjReturn

SpecLabel == InitLabel /\ [][NextLabel]_vars

\* the fields of a Label the serializer has to refuse: an empty label, a key
\* int() does not take, a color that is no float in [0, 1]
InvalidFields(lab) ==
    (IF lab.label = PyStr("") THEN {"label"} ELSE {})
    \cup (IF int(lab.key).exc # "none" THEN {"key"} ELSE {})
    \cup {c_ \in LabelColors : float_01(lab[c_]).exc # "none"}

\* C13: serializing a Label raises CIFTI2HeaderError if its label is empty,
\* its key is not integer-coercible, or one of red, green, blue, alpha, as
\* they are when the call is made, is no number in [0, 1]; otherwise it
\* returns the Label element with Key and the four color attributes.
C13_LabelXml ==
    objOp.name = "_to_xml_element" =>
        IF InvalidFields(obj) # {}
        THEN objExc = "CIFTI2HeaderError"
        ELSE /\ objExc = "none"
             /\ objRet.tag = "Label"
             /\ {objRet.attrib[i][1] : i \in 1..Len(objRet.attrib)}
                   = {"Key", "Red", "Green", "Blue", "Alpha"}

\* the fields, in the order the serializer looks at them
LabelFieldOrder == <<"label", "key", "red", "blue", "green", "alpha">>

\* the message is the one the serializer gives for this field
NamesField(lab, message, field) ==
    CASE field = "label" -> message = PyStr("Label needs a name")
      [] field = "key" -> message = PyStr("The key must be an integer")
      [] OTHER ->
            \E v \in {int(lab.key).val} \cup {float_01(lab[c_]).val : c_ \in LabelColors} :
                message = PyStr(ColorMessage(field, v))

\* C14 as claimed: when several fields of a Label are invalid, the
\* CIFTI2HeaderError of its serialization names every invalid field.
C14_AllInvalidNamed ==
    (objOp.name = "_to_xml_element" /\ objExc = "CIFTI2HeaderError") =>
        \A field \in InvalidFields(obj) : NamesField(obj, objRet, field)

\* C14 amended: the CIFTI2HeaderError of a Label's serialization names one
\* field only, the first invalid one in the order label, key, red, blue,
\* green, alpha.
C14_FirstInvalidNamed ==
    (objOp.name = "_to_xml_element" /\ objExc = "CIFTI2HeaderError") =>
        \E i \in 1..Len(LabelFieldOrder) :
            /\ LabelFieldOrder[i] \in InvalidFields(obj)
            /\ \A j \in 1..(i - 1) : LabelFieldOrder[j] \notin InvalidFields(obj)
            /\ \A j \in 1..Len(LabelFieldOrder) :
                  NamesField(obj, objRet, LabelFieldOrder[j]) <=> j = i

\* blue and green are both out of range and the error names blue only, the
\* one the loop meets first
C14_Witness ==
    /\ objOp.name = "_to_xml_element"
    /\ objExc = "CIFTI2HeaderError"
    /\ InvalidFields(obj) = {"blue", "green"}
    /\ NamesField(obj, objRet, "blue")
    /\ ~NamesField(obj, objRet, "green")

(***************************************************************************)
(* Cifti2Volume: construction, attribute assignment and serialization.     *)
(***************************************************************************)
\* the 4 x 4 identity, and a matrix with halves
IdentityMatrix ==
    List([i \in 1..4 |-> List([j \in 1..4 |-> IF i = j THEN PyFloat(2) ELSE PyFloat(0)])])

HalvesMatrix ==
    List([i \in 1..4 |-> List([j \in 1..4 |-> IF i = j THEN PyFloat(1) ELSE PyInt(0)])])

\* Cifti2TransformationMatrixVoxelIndicesIJKtoXYZ.__init__
TransformationMatrix_init(meter_exponent, matrix) ==
    [type |-> "Cifti2TransformationMatrixVoxelIndicesIJKtoXYZ",
     meter_exponent |-> meter_exponent,
     matrix |-> matrix]

\* Cifti2Volume.__init__
Volume_init(volume_dimensions, transform_matrix) ==
    [type |-> "Cifti2Volume",
     volume_dimensions |-> volume_dimensions,
     transformation_matrix_voxel_indices_ijk_to_xyz |-> transform_matrix]

\* the transforms and dimensions a caller builds
TransformArgs ==
    {TransformationMatrix_init(e, m) :
        e \in {None, PyInt(0 - 3)}, m \in {None, IdentityMatrix, HalvesMatrix}}

DimensionArgs ==
    {List(<<PyInt(2), PyInt(3), PyInt(1)>>), List(<<PyInt(1), PyInt(1), PyInt(1)>>)}

\* a Volume as its constructor leaves it; the other objects of the run are
\* constructed without arguments and not used
InitVolume ==
    /\ \E volume_dimensions \in DimensionArgs \cup {None},
          transform_matrix \in TransformArgs \cup {None} :
          obj = Volume_init(volume_dimensions, transform_matrix)
    /\ objPrev = obj
    /\ objOp = NoCall
    /\ objExc = "none"
    /\ objRet = None
    /\ maps = <<>>
    /\ mimPrev = <<>>
    /\ mimOp = NoCall
    /\ mimExc = "none"
    /\ mimRet = <<>>
    /\ labels = <<>>
    /\ ltPrev = <<>>
    /\ ltOp = NoCall
    /\ ltExc = "none"
    /\ data = <<>>
    /\ mdPrev = <<>>
    /\ mdOp = NoCall
    /\ mdExc = "none"
    /\ mdRet = None
    /\ header = Header_init(None, PyStr("2.0"))
    /\ hdrArg = None
    /\ hdrOp = NoCall
    /\ hdrExc = "none"
    /\ hdrRet = None

\* volume.volume_dimensions = value
VolumeSetDimensions ==
    \E value \in DimensionArgs \cup {None} :
        ObjStep(Call("volume_dimensions", 0, value),
                ObjOutcome("none", [obj EXCEPT !.volume_dimensions = value]), None)

\* volume.transformation_matrix_voxel_indices_ijk_to_xyz = value
VolumeSetTransform ==
    \E value \in TransformArgs \cup {None} :
        ObjStep(Call("transformation_matrix_voxel_indices_ijk_to_xyz", 0, value),
                ObjOutcome("none",
                           [obj EXCEPT
                               !.transformation_matrix_voxel_indices_ijk_to_xyz = value]),
                None)

VolumeToXml ==
    ObjStep(Call("_to_xml_element", 0, None),
            ObjOutcome(Volume_to_xml_element(obj).exc, obj),
            Volume_to_xml_element(obj).val)

NextVolume ==
    \/ VolumeSetDimensions
    \/ VolumeSetTransform
    \/ VolumeToXml
    \/ ObjReturn

SpecVolume == InitVolume /\ [][NextVolume]_vars

\* C15: serializing a Volume raises CIFTI2HeaderError when volume_dimensions
\* is None and also when the transformation matrix object is None; when both
\* are there (and the transform serializes) the Volume element has the
\* attribute VolumeDimensions, the dimensions joined by commas, and the
\* TransformationMatrix element as its child.
C15_VolumeXml ==
    objOp.name = "_to_xml_element" =>
        LET trans == obj.transformation_matrix_voxel_indices_ijk_to_xyz
        IN  IF obj.volume_dimensions = None \/ trans = None
            THEN objExc = "CIFTI2HeaderError"
            ELSE IF trans.matrix = None
                 THEN objExc = "CIFTI2HeaderError"
                 ELSE /\ objExc = "none"
                      /\ objRet.tag = "Volume"
                      /\ objRet.attrib
                            = <<<<"VolumeDimensions",
                                  IF obj.volume_dimensions = List(<<PyInt(2), PyInt(3), PyInt(1)>>)
                                  THEN "2,3,1" ELSE "1,1,1">>>>
                      /\ Len(objRet.children) = 1
                      /\ objRet.children[1].tag
                            = "TransformationMatrixVoxelIndicesIJKtoXYZ"

(***************************************************************************)
(* Cifti2NamedMap, Cifti2Parcel and Cifti2BrainModel: construction, the    *)
(* property setters and serialization.                                     *)
(***************************************************************************)
\* Cifti2NamedMap.__init__: the two setters may raise
NamedMap_init(map_name, metadata, label_table) ==
    IF value_if_klass(metadata, "Cifti2MetaData").exc # "none"
    THEN Result(value_if_klass(metadata, "Cifti2MetaData").exc, None)
    ELSE IF value_if_klass(label_table, "Cifti2LabelTable").exc # "none"
    THEN Result(value_if_klass(label_table, "Cifti2LabelTable").exc, None)
    ELSE Result("none", [type |-> "Cifti2NamedMap",
                         map_name |-> map_name,
                         metadata |-> metadata,
                         label_table |-> label_table])

\* Cifti2BrainModel.__init__: the two setters may raise
BrainModel_init(index_offset, index_count, model_type, brain_structure, n_surface_vertices, voxel_indices_ijk, vertex_indices) ==
    IF value_if_klass(voxel_indices_ijk, "Cifti2VoxelIndicesIJK").exc # "none"
    THEN Result(value_if_klass(voxel_indices_ijk, "Cifti2VoxelIndicesIJK").exc, None)
    ELSE IF value_if_klass(vertex_indices, "Cifti2VertexIndices").exc # "none"
    THEN Result(value_if_klass(vertex_indices, "Cifti2VertexIndices").exc, None)
    ELSE Result("none", [type |-> "Cifti2BrainModel",
                         index_offset |-> index_offset,
                         index_count |-> index_count,
                         model_type |-> model_type,
                         brain_structure |-> brain_structure,
                         surface_number_of_vertices |-> n_surface_vertices,
                         voxel_indices_ijk |-> voxel_indices_ijk,
                         vertex_indices |-> vertex_indices])

\* a property setter that stores _value_if_klass(value, klass)
SetIfKlass(el, field, value, klass) ==
    IF value_if_klass(value, klass).exc # "none"
    THEN ObjOutcome(value_if_klass(value, klass).exc, el)
    ELSE ObjOutcome("none", [el EXCEPT ![field] = value])

\* the children a caller builds: a LabelTable without labels and one with a
\* label, and likewise the two index sequences
LabelTableArgs ==
    {[type |-> "Cifti2LabelTable", labels |-> <<>>],
     [type |-> "Cifti2LabelTable",
      labels |-> <<[k |-> PyInt(1),
                    v |-> Cifti2Label(PyInt(1), PyStr("a"), PyFloat(0), PyFloat(1),
                                      PyFloat(2), PyFloat(2)).val]>>]}

VoxelIndicesIJKArgs ==
    {[type |-> "Cifti2VoxelIndicesIJK", indices |-> <<>>],
     [type |-> "Cifti2VoxelIndicesIJK",
      indices |-> <<<<PyInt(1), PyInt(2), PyInt(3)>>, <<PyInt(0), PyInt(0), PyInt(1)>>>>]}

VertexIndicesArgs ==
    {[type |-> "Cifti2VertexIndices", indices |-> <<>>],
     [type |-> "Cifti2VertexIndices", indices |-> <<PyInt(0), PyInt(2)>>]}

\* the elements a caller builds
NamedMapArgs ==
    {NamedMap_init(PyStr("m"), metadata, label_table).val :
        metadata \in MetaDataArgs, label_table \in LabelTableArgs \cup {None}}

ParcelArgs ==
    {Parcel_init(name, voxel_indices_ijk, vertices).val :
        name \in {None, PyStr("p")},
        voxel_indices_ijk \in VoxelIndicesIJKArgs \cup {None},
        vertices \in {None} \cup {List(<<v>>) : v \in VerticesArgs}}

BrainModelArgs ==
    {BrainModel_init(PyInt(0), PyInt(2), model_type,
                     PyStr("CIFTI_STRUCTURE_CORTEX_LEFT"), n_surface_vertices,
                     voxel_indices_ijk, vertex_indices).val :
        model_type \in {PyStr("CIFTI_MODEL_TYPE_SURFACE")},
        n_surface_vertices \in {None, PyInt(3)},
        voxel_indices_ijk \in VoxelIndicesIJKArgs \cup {None},
        vertex_indices \in VertexIndicesArgs \cup {None}}

\* a NamedMap, a Parcel or a BrainModel as its constructor leaves it; the
\* other objects of the run are constructed without arguments and not used
InitElement ==
    /\ obj \in NamedMapArgs \cup ParcelArgs \cup BrainModelArgs
    /\ objPrev = obj
    /\ objOp = NoCall
    /\ objExc = "none"
    /\ objRet = None
    /\ maps = <<>>
    /\ mimPrev = <<>>
    /\ mimOp = NoCall
    /\ mimExc = "none"
    /\ mimRet = <<>>
    /\ labels = <<>>
    /\ ltPrev = <<>>
    /\ ltOp = NoCall
    /\ ltExc = "none"
    /\ data = <<>>
    /\ mdPrev = <<>>
    /\ mdOp = NoCall
    /\ mdExc = "none"
    /\ mdRet = None
    /\ header = Header_init(None, PyStr("2.0"))
    /\ hdrArg = None
    /\ hdrOp = NoCall
    /\ hdrExc = "none"
    /\ hdrRet = None

\* named_map.metadata = value
ElSetMetaData ==
    /\ IsInstance(obj, "Cifti2NamedMap")
    /\ \E value \in MetaDataArgs \cup LabelTableArgs :
          ObjStep(Call("metadata.setter", 0, value),
                  SetIfKlass(obj, "metadata", value, "Cifti2MetaData"), None)

\* named_map.label_table = value
ElSetLabelTable ==
    /\ IsInstance(obj, "Cifti2NamedMap")
    /\ \E value \in LabelTableArgs \cup {None, PyStr("a")} :
          ObjStep(Call("label_table.setter", 0, value),
                  SetIfKlass(obj, "label_table", value, "Cifti2LabelTable"), None)

\* parcel.voxel_indices_ijk = value, brain_model.voxel_indices_ijk = value
ElSetVoxelIndicesIJK ==
    /\ obj.type \in {"Cifti2Parcel", "Cifti2BrainModel"}
    /\ \E value \in VoxelIndicesIJKArgs \cup VertexIndicesArgs \cup {None} :
          ObjStep(Call("voxel_indices_ijk.setter", 0, value),
                  SetIfKlass(obj, "voxel_indices_ijk", value, "Cifti2VoxelIndicesIJK"),
                  None)

\* brain_model.vertex_indices = value
ElSetVertexIndices ==
    /\ IsInstance(obj, "Cifti2BrainModel")
    /\ \E value \in VertexIndicesArgs \cup VoxelIndicesIJKArgs \cup {None} :
          ObjStep(Call("vertex_indices.setter", 0, value),
                  SetIfKlass(obj, "vertex_indices", value, "Cifti2VertexIndices"),
                  None)

ElToXml ==
    ObjStep(Call("_to_xml_element", 0, None),
            ObjOutcome(Element_to_xml_element(obj).exc, obj),
            Element_to_xml_element(obj).val)

NextElement ==
    \/ ElSetMetaData
    \/ ElSetLabelTable
    \/ ElSetVoxelIndicesIJK
    \/ ElSetVertexIndices
    \/ ElToXml
    \/ ObjReturn

SpecElement == InitElement /\ [][NextElement]_vars

\* the element holds a child that cannot be serialized for want of content:
\* a LabelTable without labels, a VoxelIndicesIJK without rows, a
\* VertexIndices without entries
HoldsEmptyChild(el) ==
    \/ /\ IsInstance(el, "Cifti2NamedMap")
       /\ el.label_table # None
       /\ len(el.label_table) = 0
    \/ /\ el.type \in {"Cifti2Parcel", "Cifti2BrainModel"}
       /\ el.voxel_indices_ijk # None
       /\ len(el.voxel_indices_ijk) = 0
    \/ /\ IsInstance(el, "Cifti2BrainModel")
       /\ el.vertex_indices # None
       /\ len(el.vertex_indices) = 0

\* C16: serializing a NamedMap that holds a LabelTable without labels, a
\* Parcel or BrainModel that holds a VoxelIndicesIJK without rows, or a
\* BrainModel that holds a VertexIndices without entries raises
\* CIFTI2HeaderError; no output is produced that leaves the child out.
C16_NoSilentSkip ==
    (objOp.name = "_to_xml_element" /\ HoldsEmptyChild(obj))
        => objExc = "CIFTI2HeaderError"

(***************************************************************************)
(* Cifti2VoxelIndicesIJK, Cifti2Vertices and Cifti2VertexIndices as        *)
(* MutableSequences.                                                       *)
(***************************************************************************)
\* the characters of the strings a caller hands over as a row
CharsOf == [s \in {"121", "x"} |-> IF s = "121" THEN <<"1", "2", "1">> ELSE <<"x">>]

\* iter(value): the items of a list or tuple, the characters of a str;
\* anything else is not iterable
Iter(value) ==
    CASE value.type \in {"list", "tuple"} -> Result("none", value.items)
      [] value.type = "str" ->
            Result("none", [i \in 1..Len(CharsOf[value.s]) |-> PyStr(CharsOf[value.s][i])])
      [] OTHER -> Result("TypeError", None)

\* [int(v) for v in value]: the ints, or the first exception
IntAll(value) ==
    IF Iter(value).exc # "none" THEN Iter(value)
    ELSE FirstFailure([i \in 1..Len(Iter(value).val) |-> int(Iter(value).val[i])])

\* the body of the try of insert and of __setitem__ with an int index, up to
\* the store: ValueError from int() or from the length test is raised again
\* as ValueError, any other exception leaves as it is
TripleOfInts(value) ==
    IF IntAll(value).exc # "none" THEN Result(IntAll(value).exc, None)
    ELSE IF Len(IntAll(value).val) # 3 THEN Result("ValueError", None)
    ELSE IntAll(value)

\* isinstance(index, int); the other indices are tuples
IsIntIndex(index) == index.type = "int"

\* insert that stores the converted row whatever its length
VoxelIndicesIJK_insert_any_length(vox, index, value) ==
    IF ~IsIntIndex(index) /\ Len(index.items) # 1
    THEN ObjOutcome("ValueError", vox)
    ELSE IF IntAll(value).exc # "none"
    THEN ObjOutcome(IntAll(value).exc, vox)
    ELSE ObjOutcome("none",
                    [vox EXCEPT !.indices = ListInsert(vox.indices, index.n,
                                                       IntAll(value).val)])

\* Cifti2VoxelIndicesIJK.insert
VoxelIndicesIJK_insert(vox, index, value) ==
    IF ~IsIntIndex(index) /\ Len(index.items) # 1
    THEN ObjOutcome("ValueError", vox)
    ELSE IF TripleOfInts(value).exc # "none"
    THEN ObjOutcome(TripleOfInts(value).exc, vox)
    ELSE ObjOutcome("none",
                    [vox EXCEPT !.indices = ListInsert(vox.indices, index.n,
                                                       TripleOfInts(value).val)])

\* MutableSequence.extend(values): append each value, which is
\* insert(len(self), value); the first exception ends the loop
RECURSIVE VoxelIndicesIJK_extend(_, _, _)
VoxelIndicesIJK_extend(vox, values, i) ==
    IF i > Len(values) THEN ObjOutcome("none", vox)
    ELSE LET out == VoxelIndicesIJK_insert(vox, PyInt(Len(vox.indices)), values[i])
         IN  IF out.exc # "none" THEN out
             ELSE VoxelIndicesIJK_extend(out.obj, values, i + 1)

\* Cifti2VoxelIndicesIJK.__init__
VoxelIndicesIJK_init(indices) ==
    IF indices = None
    THEN ObjOutcome("none", [type |-> "Cifti2VoxelIndicesIJK", indices |-> <<>>])
    ELSE VoxelIndicesIJK_extend([type |-> "Cifti2VoxelIndicesIJK", indices |-> <<>>],
                                indices.items, 1)

\* Cifti2VoxelIndicesIJK.__setitem__
VoxelIndicesIJK_setitem(vox, index, value) ==
    IF IsIntIndex(index)
    THEN IF TripleOfInts(value).exc # "none"
         THEN ObjOutcome(TripleOfInts(value).exc, vox)
         ELSE IF ~IndexOk(index.n, Len(vox.indices))
         THEN ObjOutcome("IndexError", vox)
         ELSE ObjOutcome("none",
                         [vox EXCEPT !.indices = ListSet(vox.indices, index.n,
                                                         TripleOfInts(value).val)])
    ELSE IF Len(index.items) = 2
    THEN IF ~IsIntIndex(index.items[1])
         THEN ObjOutcome("NotImplementedError", vox)
         ELSE IF int(value).exc # "none"
         THEN ObjOutcome(int(value).exc, vox)
         ELSE IF ~IndexOk(index.items[1].n, Len(vox.indices))
         THEN ObjOutcome("IndexError", vox)
         ELSE IF ~IndexOk(index.items[2].n,
                          Len(ListGet(vox.indices, index.items[1].n)))
         THEN ObjOutcome("IndexError", vox)
         ELSE ObjOutcome("none",
                         [vox EXCEPT !.indices =
                             ListSet(vox.indices, index.items[1].n,
                                     ListSet(ListGet(vox.indices, index.items[1].n),
                                             index.items[2].n, int(value).val))])
    ELSE ObjOutcome("ValueError", vox)

\* Cifti2VoxelIndicesIJK.__delitem__
VoxelIndicesIJK_delitem(vox, index) ==
    IF ~IsIntIndex(index) /\ Len(index.items) > 1
    THEN ObjOutcome("NotImplementedError", vox)
    ELSE IF ~IsIntIndex(index) THEN ObjOutcome("TypeError", vox)
    ELSE IF ~IndexOk(index.n, Len(vox.indices))
    THEN ObjOutcome("IndexError", vox)
    ELSE ObjOutcome("none", [vox EXCEPT !.indices = ListDel(vox.indices, index.n)])

\* Cifti2VoxelIndicesIJK.__getitem__: a row as a list, or a cell
VoxelIndicesIJK_getitem(vox, index) ==
    IF IsIntIndex(index)
    THEN IF ~IndexOk(index.n, Len(vox.indices))
         THEN Result("IndexError", None)
         ELSE Result("none", List(ListGet(vox.indices, index.n)))
    ELSE IF Len(index.items) = 2
    THEN IF ~IsIntIndex(index.items[1])
         THEN Result("NotImplementedError", None)
         ELSE IF ~IndexOk(index.items[1].n, Len(vox.indices))
         THEN Result("IndexError", None)
         ELSE IF ~IndexOk(index.items[2].n,
                          Len(ListGet(vox.indices, index.items[1].n)))
         THEN Result("IndexError", None)
         ELSE Result("none", ListGet(ListGet(vox.indices, index.items[1].n),
                                     index.items[2].n))
    ELSE Result("ValueError", None)

\* the body of __setitem__ of Cifti2Vertices and of Cifti2VertexIndices on
\* the list of ints: ValueError from int() is raised again as ValueError, any
\* other exception leaves as it is
IntList_setitem(lst, index, value) ==
    IF int(value).exc # "none" THEN Result(int(value).exc, lst)
    ELSE IF ~IndexOk(index, Len(lst)) THEN Result("IndexError", lst)
    ELSE Result("none", ListSet(lst, index, int(value).val))

\* the body of insert of the two classes
IntList_insert(lst, index, value) ==
    IF int(value).exc # "none" THEN Result(int(value).exc, lst)
    ELSE Result("none", ListInsert(lst, index, int(value).val))

\* the body of __delitem__ of the two classes
IntList_delitem(lst, index) ==
    IF ~IndexOk(index, Len(lst)) THEN Result("IndexError", lst)
    ELSE Result("none", ListDel(lst, index))

\* the list of ints of a Vertices or a VertexIndices, and the object with
\* another list
IntListOf(o) == IF IsInstance(o, "Cifti2Vertices") THEN o.vertices ELSE o.indices

WithIntList(o, r) ==
    ObjOutcome(r.exc, IF IsInstance(o, "Cifti2Vertices")
                      THEN [o EXCEPT !.vertices = r.val]
                      ELSE [o EXCEPT !.indices = r.val])

\* Cifti2Vertices.__setitem__, Cifti2VertexIndices.__setitem__
Vertices_setitem(o, index, value) ==
    WithIntList(o, IntList_setitem(IntListOf(o), index, value))

\* Cifti2Vertices.insert, Cifti2VertexIndices.insert
Vertices_insert(o, index, value) ==
    WithIntList(o, IntList_insert(IntListOf(o), index, value))

\* Cifti2Vertices.__delitem__, Cifti2VertexIndices.__delitem__
Vertices_delitem(o, index) ==
    WithIntList(o, IntList_delitem(IntListOf(o), index))

\* the most rows or vertices a sequence of the run holds
MaxIndices == 2

\* the rows a caller hands over: two triples (the second needs conversion,
\* 2.5 to 2), a str of three digits, rows that are too short or too long,
\* rows with an item int() refuses, and values that are no sequence
RowValues ==
    {List(<<PyInt(1), PyInt(2), PyInt(3)>>),
     Tuple(<<PyStr("1"), PyFloat(5), PyInt(3)>>),
     PyStr("121"),
     List(<<PyInt(1), PyInt(2)>>),
     List(<<PyInt(1), PyInt(2), PyInt(3), PyInt(1)>>),
     List(<<PyInt(1), PyStr("x"), PyInt(3)>>),
     List(<<PyInt(1), None, PyInt(3)>>),
     PyInt(1),
     None}

\* the values a caller hands over as a cell or as a vertex
IntValues == {PyStr("2"), PyStr("x"), None}

\* the indices of a row: an int, or a pair or a triple of ints
RowIndices(n) == {PyInt(i) : i \in Indices(n)}

CellIndices(n) ==
    {Tuple(<<PyInt(i), PyInt(j)>>) : i \in (0 - n)..n, j \in {0 - 4, 0 - 1, 0, 2, 3}}

\* a VoxelIndicesIJK, a Vertices or a VertexIndices as its constructor leaves
\* it (for the last two, of values int() takes); the other objects of the run
\* are constructed without arguments and not used
InitIndices ==
    /\ \/ \E rows \in SeqsUpTo(RowValues, MaxIndices) :
             /\ VoxelIndicesIJK_init(List(rows)).exc = "none"
             /\ obj = VoxelIndicesIJK_init(List(rows)).obj
       \/ obj = VoxelIndicesIJK_init(None).obj
       \/ \E v \in SeqsUpTo({PyInt(0), PyInt(2)}, MaxIndices) :
             obj \in {[type |-> "Cifti2Vertices",
                       brain_structure |-> PyStr("CIFTI_STRUCTURE_CORTEX_LEFT"),
                       vertices |-> v],
                      [type |-> "Cifti2VertexIndices", indices |-> v]}
    /\ objPrev = obj
    /\ objOp = NoCall
    /\ objExc = "none"
    /\ objRet = None
    /\ maps = <<>>
    /\ mimPrev = <<>>
    /\ mimOp = NoCall
    /\ mimExc = "none"
    /\ mimRet = <<>>
    /\ labels = <<>>
    /\ ltPrev = <<>>
    /\ ltOp = NoCall
    /\ ltExc = "none"
    /\ data = <<>>
    /\ mdPrev = <<>>
    /\ mdOp = NoCall
    /\ mdExc = "none"
    /\ mdRet = None
    /\ header = Header_init(None, PyStr("2.0"))
    /\ hdrArg = None
    /\ hdrOp = NoCall
    /\ hdrExc = "none"
    /\ hdrRet = None

VoxInsert ==
    /\ IsInstance(obj, "Cifti2VoxelIndicesIJK")
    /\ Len(obj.indices) < MaxIndices
    /\ \E index \in RowIndices(Len(obj.indices)) \cup {Tuple(<<PyInt(0), PyInt(0)>>)},
          value \in RowValues :
          ObjStep(Call("insert", index, value),
                  VoxelIndicesIJK_insert(obj, index, value), None)

VoxSetItem ==
    /\ IsInstance(obj, "Cifti2VoxelIndicesIJK")
    /\ \/ \E index \in RowIndices(Len(obj.indices)), value \in RowValues :
             ObjStep(Call("__setitem__", index, value),
                     VoxelIndicesIJK_setitem(obj, index, value), None)
       \/ \E index \in CellIndices(Len(obj.indices))
                          \cup {Tuple(<<PyInt(0), PyInt(0), PyInt(0)>>)},
             value \in IntValues :
             ObjStep(Call("__setitem__", index, value),
                     VoxelIndicesIJK_setitem(obj, index, value), None)

VoxDelItem ==
    /\ IsInstance(obj, "Cifti2VoxelIndicesIJK")
    /\ \E index \in RowIndices(Len(obj.indices)) \cup {Tuple(<<PyInt(0), PyInt(0)>>)} :
          ObjStep(Call("__delitem__", index, None),
                  VoxelIndicesIJK_delitem(obj, index), None)

VoxGetItem ==
    /\ IsInstance(obj, "Cifti2VoxelIndicesIJK")
    /\ \E index \in RowIndices(Len(obj.indices)) \cup CellIndices(Len(obj.indices)) :
          ObjStep(Call("__getitem__", index, None),
                  ObjOutcome(VoxelIndicesIJK_getitem(obj, index).exc, obj),
                  VoxelIndicesIJK_getitem(obj, index).val)

VertInsert ==
    /\ obj.type \in {"Cifti2Vertices", "Cifti2VertexIndices"}
    /\ Len(IntListOf(obj)) < MaxIndices
    /\ \E index \in Indices(Len(IntListOf(obj))), value \in IntValues :
          ObjStep(Call("insert", PyInt(index), value),
                  Vertices_insert(obj, index, value), None)

VertSetItem ==
    /\ obj.type \in {"Cifti2Vertices", "Cifti2VertexIndices"}
    /\ \E index \in Indices(Len(IntListOf(obj))), value \in IntValues :
          ObjStep(Call("__setitem__", PyInt(index), value),
                  Vertices_setitem(obj, index, value), None)

VertDelItem ==
    /\ obj.type \in {"Cifti2Vertices", "Cifti2VertexIndices"}
    /\ \E index \in Indices(Len(IntListOf(obj))) :
          ObjStep(Call("__delitem__", PyInt(index), None),
                  Vertices_delitem(obj, index), None)

NextIndices ==
    \/ VoxInsert
    \/ VoxSetItem
    \/ VoxDelItem
    \/ VoxGetItem
    \/ VertInsert
    \/ VertSetItem
    \/ VertDelItem
    \/ ObjReturn

SpecIndices == InitIndices /\ [][NextIndices]_vars

\* the row is a list of exactly three ints
IsTriple(row) == Len(row) = 3 /\ \A j \in 1..3 : row[j].type = "int"

\* C17: whatever is done to a VoxelIndicesIJK (construction from rows,
\* insert, set of a row, set of a cell, delete of a row), every row is
\* exactly three ints; v[i, j] = x changes the cell (i, j) only, and v[i, j]
\* returns the item j of the row i.
C17_Triples ==
    IsInstance(obj, "Cifti2VoxelIndicesIJK") =>
        /\ \A i \in 1..Len(obj.indices) : IsTriple(obj.indices[i])
        /\ (/\ objOp.name = "__setitem__"
            /\ objOp.index.type = "tuple"
            /\ objExc = "none")
              => LET r == NormIndex(objOp.index.items[1].n, Len(obj.indices)) + 1
                     c == NormIndex(objOp.index.items[2].n, 3) + 1
                 IN  /\ Len(obj.indices) = Len(objPrev.indices)
                     /\ obj.indices[r][c] = int(objOp.value).val
                     /\ \A i \in 1..Len(obj.indices), j \in 1..3 :
                           (i # r \/ j # c) => obj.indices[i][j] = objPrev.indices[i][j]
        /\ (/\ objOp.name = "__getitem__"
            /\ objOp.index.type = "tuple"
            /\ objExc = "none")
              => objRet = obj.indices[NormIndex(objOp.index.items[1].n,
                                                Len(obj.indices)) + 1]
                                     [NormIndex(objOp.index.items[2].n, 3) + 1]

\* the cell (1, 2) of two equal rows was set from a str, to a value it did
\* not hold
C17_Witness ==
    /\ IsInstance(obj, "Cifti2VoxelIndicesIJK")
    /\ objOp.name = "__setitem__"
    /\ objOp.index = Tuple(<<PyInt(1), PyInt(2)>>)
    /\ objOp.value = PyStr("2")
    /\ objExc = "none"
    /\ Len(objPrev.indices) = 2
    /\ objPrev.indices[1] = objPrev.indices[2]
    /\ obj.indices[2][3] # objPrev.indices[2][3]

\* the value is no row: not a sequence at all, or not exactly three values
\* that int() takes
WrongRow(value) ==
    \/ value.type \notin {"list", "tuple", "str"}
    \/ Len(Iter(value).val) # 3
    \/ \E i \in 1..Len(Iter(value).val) : int(Iter(value).val[i]).exc # "none"

\* the value is no vertex: int() does not take it
WrongVertex(value) == int(value).exc # "none"

\* C18: for VoxelIndicesIJK, Vertices and VertexIndices, an insert or a set
\* of a value of the wrong shape or type (a row that is not exactly three
\* integer-coercible values or no sequence at all, a vertex that is not
\* integer-coercible, such as a str that is no number or None) raises
\* ValueError and leaves the sequence as it was.
C18_WrongValueRejected ==
    (/\ objOp.name \in {"insert", "__setitem__"}
     /\ objOp.index.type = "int"
     /\ IF IsInstance(obj, "Cifti2VoxelIndicesIJK")
        THEN WrongRow(objOp.value)
        ELSE WrongVertex(objOp.value))
    => (objExc = "ValueError" /\ obj = objPrev)

(***************************************************************************)
(* Cifti2MatrixIndicesMap: construction with attributes, attribute         *)
(* assignment and serialization.                                           *)
(***************************************************************************)
\* Cifti2MatrixIndicesMap.__init__ with its attributes: the maps are
\* appended one by one, and an exception of an append leaves the constructor
MatrixIndicesMap_init(applies_to_matrix_dimension, indices_map_to_data_type, number_of_series_points, series_exponent, series_start, series_step, series_unit, args) ==
    IF MimInit(args).exc # "none" THEN Result(MimInit(args).exc, None)
    ELSE Result("none",
                [type |-> "Cifti2MatrixIndicesMap",
                 applies_to_matrix_dimension |-> applies_to_matrix_dimension,
                 indices_map_to_data_type |-> indices_map_to_data_type,
                 number_of_series_points |-> number_of_series_points,
                 series_exponent |-> series_exponent,
                 series_start |-> series_start,
                 series_step |-> series_step,
                 series_unit |-> series_unit,
                 maps |-> MimInit(args).maps])

\* the most elements a MatrixIndicesMap of the run holds
MaxMaps == 2

\* the elements a caller puts into the map: a Surface that serializes and
\* one that does not, a Volume without transform and one with, a NamedMap
MapArgs ==
    {[type |-> "Cifti2Surface",
      brain_structure |-> PyStr("CIFTI_STRUCTURE_CORTEX_LEFT"),
      surface_number_of_vertices |-> PyInt(3)],
     [type |-> "Cifti2Surface", brain_structure |-> None,
      surface_number_of_vertices |-> PyInt(3)],
     Volume_init(List(<<PyInt(2), PyInt(3), PyInt(1)>>), None),
     Volume_init(List(<<PyInt(2), PyInt(3), PyInt(1)>>),
                 TransformationMatrix_init(PyInt(0 - 3), IdentityMatrix)),
     NamedMap_init(PyStr("m"), None, None).val}

\* the values a caller gives to the attributes
MimAttributeValues ==
    [applies_to_matrix_dimension |->
         {None, List(<<PyInt(0)>>), List(<<PyInt(0), PyInt(1)>>)},
     indices_map_to_data_type |-> {None, PyStr("CIFTI_INDEX_TYPE_SERIES")},
     number_of_series_points |-> {None, PyInt(2)},
     series_exponent |-> {None, PyInt(0 - 3)},
     series_start |-> {None, PyFloat(0)},
     series_step |-> {None, PyFloat(1)},
     series_unit |-> {None, PyStr("SECOND")}]

\* a MatrixIndicesMap as its constructor leaves it; the other objects of the
\* run are constructed without arguments and not used
InitMimXml ==
    /\ \E applies_to_matrix_dimension \in MimAttributeValues.applies_to_matrix_dimension,
          number_of_series_points \in MimAttributeValues.number_of_series_points,
          series_unit \in MimAttributeValues.series_unit,
          args \in SeqsUpTo(MapArgs, MaxMaps) :
          LET made == MatrixIndicesMap_init(applies_to_matrix_dimension,
                                            PyStr("CIFTI_INDEX_TYPE_SERIES"),
                                            number_of_series_points, None, None,
                                            None, series_unit, args)
          IN  /\ made.exc = "none"
              /\ obj = made.val
    /\ objPrev = obj
    /\ objOp = NoCall
    /\ objExc = "none"
    /\ objRet = None
    /\ maps = <<>>
    /\ mimPrev = <<>>
    /\ mimOp = NoCall
    /\ mimExc = "none"
    /\ mimRet = <<>>
    /\ labels = <<>>
    /\ ltPrev = <<>>
    /\ ltOp = NoCall
    /\ ltExc = "none"
    /\ data = <<>>
    /\ mdPrev = <<>>
    /\ mdOp = NoCall
    /\ mdExc = "none"
    /\ mdRet = None
    /\ header = Header_init(None, PyStr("2.0"))
    /\ hdrArg = None
    /\ hdrOp = NoCall
    /\ hdrExc = "none"
    /\ hdrRet = None

\* mim.<attribute> = value
MimSetAttribute ==
    \E attr \in DOMAIN MimAttributeValues :
        \E value \in MimAttributeValues[attr] :
            ObjStep(Call(attr, 0, value),
                    ObjOutcome("none", [obj EXCEPT ![attr] = value]), None)

\* mim.append(value)
MimXmlAppend ==
    /\ Len(obj.maps) < MaxMaps
    /\ \E value \in MapArgs :
          ObjStep(Call("append", 0, value),
                  ObjOutcome(append(obj.maps, value).exc,
                             [obj EXCEPT !.maps = append(obj.maps, value).maps]),
                  None)

\* del mim[index]
MimXmlDelItem ==
    \E index \in Indices(Len(obj.maps)) :
        ObjStep(Call("__delitem__", index, None),
                ObjOutcome(delitem(obj.maps, index).exc,
                           [obj EXCEPT !.maps = delitem(obj.maps, index).maps]),
                None)

\* mim[index] = value
MimXmlSetItem ==
    \E index \in Indices(Len(obj.maps)), value \in MapArgs :
        ObjStep(Call("__setitem__", index, value),
                ObjOutcome(setitem(obj.maps, index, value).exc,
                           [obj EXCEPT !.maps = setitem(obj.maps, index, value).maps]),
                None)

MimToXml ==
    ObjStep(Call("_to_xml_element", 0, None),
            ObjOutcome(MatrixIndicesMap_to_xml_element(obj).exc, obj),
            MatrixIndicesMap_to_xml_element(obj).val)

NextMimXml ==
    \/ MimSetAttribute
    \/ MimXmlAppend
    \/ MimXmlDelItem
    \/ MimXmlSetItem
    \/ MimToXml
    \/ ObjReturn

SpecMimXml == InitMimXml /\ [][NextMimXml]_vars

\* the six optional attributes in the order they are written, each with the
\* field it is read from
OptionalAttributes(mim) ==
    <<<<"IndicesMapToDataType", mim.indices_map_to_data_type>>,
      <<"NumberOfSeriesPoints", mim.number_of_series_points>>,
      <<"SeriesExponent", mim.series_exponent>>,
      <<"SeriesStart", mim.series_start>>,
      <<"SeriesStep", mim.series_step>>,
      <<"SeriesUnit", mim.series_unit>>>>

\* C19: serializing a MatrixIndicesMap raises CIFTI2HeaderError when
\* applies_to_matrix_dimension is None; otherwise the element has
\* AppliesToMatrixDimension, the dimensions joined by commas, then each of
\* the six optional attributes that is set and none that is not, and one
\* child per contained element in order; the first child that fails to
\* serialize ends the call with its exception.
C19_MimXml ==
    objOp.name = "_to_xml_element" =>
        IF obj.applies_to_matrix_dimension = None
        THEN objExc = "CIFTI2HeaderError"
        ELSE LET kids == [i \in 1..Len(obj.maps) |-> Element_to_xml_element(obj.maps[i])]
                 failing == {i \in 1..Len(kids) : kids[i].exc # "none"}
                 opt == SelectSeq(OptionalAttributes(obj), LAMBDA a : a[2] # None)
             IN  IF failing # {}
                 THEN objExc = kids[CHOOSE i \in failing : \A j \in failing : i <= j].exc
                 ELSE /\ objExc = "none"
                      /\ objRet.tag = "MatrixIndicesMap"
                      /\ objRet.attrib[1]
                            = <<"AppliesToMatrixDimension",
                                IF obj.applies_to_matrix_dimension = List(<<PyInt(0)>>)
                                THEN "0" ELSE "0,1">>
                      /\ Len(objRet.attrib) = 1 + Len(opt)
                      /\ \A i \in 1..Len(opt) :
                            objRet.attrib[i + 1] = <<opt[i][1], str(opt[i][2])>>
                      /\ objRet.children = [i \in 1..Len(kids) |-> kids[i].val]

\* a map with some attributes set and others not, holding a Surface and then
\* a NamedMap, was serialized
C19_Witness ==
    /\ objOp.name = "_to_xml_element"
    /\ objExc = "none"
    /\ obj.number_of_series_points # None
    /\ obj.series_start = None
    /\ obj.series_step # None
    /\ Len(objRet.attrib) = 4
    /\ Len(obj.maps) = 2
    /\ IsInstance(obj.maps[1], "Cifti2Surface")
    /\ IsInstance(obj.maps[2], "Cifti2NamedMap")
    /\ objRet.children[2].tag = "NamedMap"

(***************************************************************************)
(* Cifti2Image.from_file_map.  The NIfTI-2 container, its extensions and    *)
(* the image base class are collaborators outside cifti2.py: a container   *)
(* is the list of extensions of its header and the shape of its data, an   *)
(* extension its class and its content.                                    *)
(***************************************************************************)
\* the most extensions a container of the run holds
MaxExtensions == 3

\* the extensions of a container: two Cifti2Extensions of different headers,
\* and two extensions of other classes
ExtensionArgs ==
    {[type |-> "Cifti2Extension", content |-> Header_init(None, version)] :
        version \in Versions}
    \cup {[type |-> "Nifti1Extension", content |-> PyStr("a")],
          [type |-> "Nifti1DicomExtension", content |-> PyStr("a")]}

\* _Cifti2AsNiftiImage.from_file_map: the NIfTI-2 image read from the files
Cifti2AsNiftiImage_from_file_map(file_map) ==
    [header |-> [type |-> "Nifti2Header", extensions |-> file_map.extensions],
     dataobj |-> [shape |-> file_map.shape]]

\* Cifti2Extension.get_content
get_content(item) == item.content

\* reshape_dataobj(dataobj, shape)
reshape_dataobj(dataobj, shape) == [dataobj EXCEPT !.shape = shape]

\* Nifti2Header.from_header: a header of its own for the image, a copy of the
\* one given or a new one without extensions
Nifti2Header_from_header(nifti_header) ==
    IF nifti_header = None
    THEN [type |-> "Nifti2Header", extensions |-> <<>>]
    ELSE nifti_header

\* Cifti2Image.__init__
Cifti2Image_init(dataobj, hdr, nifti_header, file_map) ==
    [type |-> "Cifti2Image",
     dataobj |-> dataobj,
     header |-> hdr,
     nifti_header |-> Nifti2Header_from_header(nifti_header),
     file_map |-> file_map]

\* a loop that keeps the last Cifti2Extension it meets
LastCifti2Extension(extensions, i) ==
    IF \E k \in i..Len(extensions) : IsInstance(extensions[k], "Cifti2Extension")
    THEN CHOOSE k \in i..Len(extensions) :
             /\ IsInstance(extensions[k], "Cifti2Extension")
             /\ \A j \in (k + 1)..Len(extensions) :
                   ~IsInstance(extensions[j], "Cifti2Extension")
    ELSE 0

\* the loop "for item in nifti_img.header.extensions: if isinstance(item,
\* Cifti2Extension): ... break", from the i-th extension: the position at
\* which it breaks, or 0 when it runs into the else
RECURSIVE FirstCifti2Extension(_, _)
FirstCifti2Extension(extensions, i) ==
    IF i > Len(extensions) THEN 0
    ELSE IF IsInstance(extensions[i], "Cifti2Extension") THEN i
         ELSE FirstCifti2Extension(extensions, i + 1)

\* Cifti2Image.from_file_map
from_file_map(file_map) ==
    LET nifti_img == Cifti2AsNiftiImage_from_file_map(file_map)
        found == FirstCifti2Extension(nifti_img.header.extensions, 1)
    IN  IF found = 0
        THEN Result("ValueError", None)
        ELSE LET cifti_header == get_content(nifti_img.header.extensions[found])
                 dataobj == nifti_img.dataobj
             IN  Result("none",
                        Cifti2Image_init(
                            reshape_dataobj(dataobj,
                                            SubSeq(dataobj.shape, 5, Len(dataobj.shape))),
                            cifti_header, nifti_img.header, file_map))

\* the containers a caller loads from
FileMaps ==
    {[extensions |-> extensions, shape |-> <<1, 1, 1, 1, 2, 3>>] :
        extensions \in SeqsUpTo(ExtensionArgs, MaxExtensions)}

\* a container on file; the other objects of the run are constructed without
\* arguments and not used
InitImage ==
    /\ obj \in FileMaps
    /\ objPrev = obj
    /\ objOp = NoCall
    /\ objExc = "none"
    /\ objRet = None
    /\ maps = <<>>
    /\ mimPrev = <<>>
    /\ mimOp = NoCall
    /\ mimExc = "none"
    /\ mimRet = <<>>
    /\ labels = <<>>
    /\ ltPrev = <<>>
    /\ ltOp = NoCall
    /\ ltExc = "none"
    /\ data = <<>>
    /\ mdPrev = <<>>
    /\ mdOp = NoCall
    /\ mdExc = "none"
    /\ mdRet = None
    /\ header = Header_init(None, PyStr("2.0"))
    /\ hdrArg = None
    /\ hdrOp = NoCall
    /\ hdrExc = "none"
    /\ hdrRet = None

ImgFromFileMap ==
    ObjStep(Call("from_file_map", 0, None),
            ObjOutcome(from_file_map(obj).exc, obj), from_file_map(obj).val)

NextImage ==
    \/ ImgFromFileMap
    \/ ObjReturn

SpecImage == InitImage /\ [][NextImage]_vars

\* C20: from_file_map goes through the extensions of the container's header
\* in order and makes the content of the first Cifti2Extension the header of
\* the image; when no extension is a Cifti2Extension it raises an error and
\* returns no image.
C20_FirstExtension ==
    objOp.name = "from_file_map" =>
        LET cifti == {i \in 1..Len(obj.extensions) :
                         IsInstance(obj.extensions[i], "Cifti2Extension")}
        IN  IF cifti = {}
            THEN objExc # "none" /\ objRet = None
            ELSE /\ objExc = "none"
                 /\ IsInstance(objRet, "Cifti2Image")
                 /\ \E i \in cifti :
                       /\ \A j \in cifti : i <= j
                       /\ objRet.header = obj.extensions[i].content

\* a container whose second and third extensions are Cifti2Extensions of
\* different headers was loaded
C20_Witness ==
    /\ objOp.name = "from_file_map"
    /\ objExc = "none"
    /\ Len(obj.extensions) = 3
    /\ ~IsInstance(obj.extensions[1], "Cifti2Extension")
    /\ IsInstance(obj.extensions[2], "Cifti2Extension")
    /\ IsInstance(obj.extensions[3], "Cifti2Extension")
    /\ obj.extensions[2].content # obj.extensions[3].content
    /\ objRet.header = obj.extensions[2].content

(***************************************************************************)
(* Cifti2MatrixIndicesMap: the association of element classes and map      *)
(* types.                                                                  *)
(***************************************************************************)
\* Cifti2MatrixIndicesMap._valid_type_mappings_
valid_type_mappings_ ==
    [Cifti2BrainModel |-> {"CIFTI_INDEX_TYPE_BRAIN_MODELS"},
     Cifti2Parcel |-> {"CIFTI_INDEX_TYPE_PARCELS"},
     Cifti2NamedMap |-> {"CIFTI_INDEX_TYPE_LABELS"},
     Cifti2Volume |-> {"CIFTI_INDEX_TYPE_SCALARS", "CIFTI_INDEX_TYPE_SERIES"},
     Cifti2Surface |-> {"CIFTI_INDEX_TYPE_SCALARS", "CIFTI_INDEX_TYPE_SERIES"}]

\* the class of the element is associated with the map type
LegalUnder(el, map_type) ==
    /\ map_type.type = "str"
    /\ map_type.s \in valid_type_mappings_[el.type]

\* the class whose elements are serialized under a tag
ClassOfTag ==
    [NamedMap |-> "Cifti2NamedMap", Surface |-> "Cifti2Surface",
     Volume |-> "Cifti2Volume", Parcel |-> "Cifti2Parcel",
     BrainModel |-> "Cifti2BrainModel"]

\* C21: a MatrixIndicesMap with a map type holds only elements whose class is
\* associated with that type in _valid_type_mappings_, whether they came
\* from the constructor, insert or index assignment, and no serialization
\* has a child of a class that is not associated with the written
\* IndicesMapToDataType.
C21_OnlyLegalElements ==
    /\ obj.indices_map_to_data_type # None =>
          \A i \in 1..Len(obj.maps) :
              LegalUnder(obj.maps[i], obj.indices_map_to_data_type)
    /\ (/\ objOp.name = "_to_xml_element"
        /\ objExc = "none"
        /\ obj.indices_map_to_data_type # None) =>
          \A i \in 1..Len(objRet.children) :
              obj.indices_map_to_data_type.s
                  \in valid_type_mappings_[ClassOfTag[objRet.children[i].tag]]

(***************************************************************************)
(* Cifti2Image.to_file_map: an image that is saved, changed and loaded.    *)
(* A file map stands for what its files hold; the XML text of a header     *)
(* stands as the element tree it is the text of.                           *)
(***************************************************************************)
\* Cifti2Header.to_xml
to_xml(hdr) == Header_to_xml_element(hdr)

\* the parser on the text of a CIFTI element whose Matrix has no
\* MatrixIndicesMap: the version, and the names and values of the MetaData
\* as strs (no MetaData when the Matrix has no such child)
parse_cifti2(xml) ==
    LET mat == xml.children[1]
        md == mat.children[1]
    IN  [matrix |->
             [type |-> "Cifti2Matrix", id |-> 0, mims |-> <<>>,
              metadata |->
                  IF Len(mat.children) = 0 THEN None
                  ELSE [type |-> "Cifti2MetaData",
                        data |-> [i \in 1..Len(md.children) |->
                                     [k |-> PyStr(md.children[i].children[1].text),
                                      v |-> PyStr(md.children[i].children[2].text)]]]],
         version |-> PyStr(xml.attrib[1][2])]

\* Cifti2Extension(content=xml)
Cifti2Extension_init(content) ==
    [type |-> "Cifti2Extension", content |-> parse_cifti2(content)]

\* Nifti2Image(data, None, header).to_file_map(file_map): what the files hold
\* afterwards
Nifti2Image_to_file_map(dataobj, nifti_header) ==
    [extensions |-> nifti_header.extensions, shape |-> dataobj.shape]

\* Cifti2Image.to_file_map(), on the image's own file_map: the exception, or
\* the image as the call leaves it
to_file_map(img) ==
    Then(to_xml(img.header),
         LAMBDA xml :
             LET extension == Cifti2Extension_init(xml)
                 nifti_header ==
                     [img.nifti_header EXCEPT
                         !.extensions = Append(img.nifti_header.extensions, extension)]
                 reshaped == reshape_dataobj(img.dataobj,
                                             <<1, 1, 1, 1>> \o img.dataobj.shape)
             IN  Result("none",
                        [img EXCEPT
                            !.nifti_header = nifti_header,
                            !.file_map = Nifti2Image_to_file_map(reshaped, nifti_header)]))

\* the MetaData a caller gives to the matrix of the header
SavedMetaData ==
    {None,
     [type |-> "Cifti2MetaData", data |-> <<>>],
     [type |-> "Cifti2MetaData", data |-> <<[k |-> PyStr("a"), v |-> PyStr("x")]>>],
     [type |-> "Cifti2MetaData", data |-> <<[k |-> PyStr("b"), v |-> PyStr("x")]>>]}

\* a new image with a header, no NIfTI header given and nothing written to
\* its files; `saved` keeps the header as it was at the last to_file_map
\* that returned; the other objects of the run are constructed without
\* arguments and not used
InitSave ==
    /\ \E version \in Versions :
          obj = [type |-> "Session",
                 image |-> Cifti2Image_init([shape |-> <<2, 3>>],
                                            Header_init(None, version), None, None),
                 saved |-> None]
    /\ objPrev = obj
    /\ objOp = NoCall
    /\ objExc = "none"
    /\ objRet = None
    /\ maps = <<>>
    /\ mimPrev = <<>>
    /\ mimOp = NoCall
    /\ mimExc = "none"
    /\ mimRet = <<>>
    /\ labels = <<>>
    /\ ltPrev = <<>>
    /\ ltOp = NoCall
    /\ ltExc = "none"
    /\ data = <<>>
    /\ mdPrev = <<>>
    /\ mdOp = NoCall
    /\ mdExc = "none"
    /\ mdRet = None
    /\ header = Header_init(None, PyStr("2.0"))
    /\ hdrArg = None
    /\ hdrOp = NoCall
    /\ hdrExc = "none"
    /\ hdrRet = None

\* img.to_file_map()
SaveToFileMap ==
    /\ Len(obj.image.nifti_header.extensions) < MaxExtensions
    /\ LET out == to_file_map(obj.image)
       IN  ObjStep(Call("to_file_map", 0, None),
                   ObjOutcome(out.exc,
                              IF out.exc # "none" THEN obj
                              ELSE [obj EXCEPT !.image = out.val,
                                               !.saved = obj.image.header]),
                   None)

\* img.header.version = version
SaveSetVersion ==
    \E version \in Versions :
        ObjStep(Call("version", 0, version),
                ObjOutcome("none", [obj EXCEPT !.image.header.version = version]),
                None)

\* img.header.matrix.metadata = meta
SaveSetMetaData ==
    \E meta \in SavedMetaData :
        LET out == Matrix_metadata_setter(obj.image.header.matrix, meta)
        IN  ObjStep(Call("metadata", 0, meta),
                    ObjOutcome(out.exc, [obj EXCEPT !.image.header.matrix = out.obj]),
                    None)

\* img = Cifti2Image.from_file_map(img.file_map), once the files are written
SaveLoad ==
    /\ obj.image.file_map # None
    /\ LET out == from_file_map(obj.image.file_map)
       IN  ObjStep(Call("from_file_map", 0, None),
                   ObjOutcome(out.exc,
                              IF out.exc # "none" THEN obj
                              ELSE [obj EXCEPT !.image = out.val]),
                   out.val)

NextSave ==
    \/ SaveToFileMap
    \/ SaveSetVersion
    \/ SaveSetMetaData
    \/ SaveLoad
    \/ ObjReturn

SpecSave == InitSave /\ [][NextSave]_vars

\* C22: a to_file_map that returns leaves the list of extensions of the
\* image's NIfTI header as it was before the call.
C22_SaveLeavesImage ==
    (objOp.name = "to_file_map" /\ objExc = "none") =>
        obj.image.nifti_header.extensions = objPrev.image.nifti_header.extensions

\* C23: the image loaded from the files has the header that the text
\* written by the last to_file_map that returned is the text of.
C23_LoadsLastSave ==
    (objOp.name = "from_file_map" /\ objExc = "none" /\ obj.saved # None) =>
        objRet.header = parse_cifti2(to_xml(obj.saved).val)

(***************************************************************************)
(* Cifti2MetaData.difference_update: a call that fails.                    *)
(***************************************************************************)
\* C24: a difference_update that raises KeyError has removed no key: the
\* container is as it was before the call.
C24_AllOrNothing ==
    (mdOp.name = "difference_update" /\ mdExc = "KeyError") => data = mdPrev

(***************************************************************************)
(* Cifti2MatrixIndicesMap: reversing by index assignment.                  *)
(***************************************************************************)
\* C25: reverse() on a MatrixIndicesMap with exactly one Volume, wherever it
\* is, returns without exception and leaves the same elements in reversed
\* order.
C25_ReverseAnywhere ==
    (/\ mimOp.name = "reverse"
     /\ Cardinality({i \in 1..Len(mimPrev) :
                        IsInstance(mimPrev[i], "Cifti2Volume")}) = 1) =>
        /\ mimExc = "none"
        /\ maps = [i \in 1..Len(mimPrev) |-> mimPrev[Len(mimPrev) + 1 - i]]

====
